---- MODULE Spec2Model ----
(***************************************************************************)
(* State-machine model of the MTH9815 bond trading system: the services,   *)
(* connectors and listeners wired by main.cpp, driven one input record at  *)
(* a time.  Every top-level call (one record read by a connector's         *)
(* Subscribe, or one call of a public service method) is one action; the   *)
(* synchronous listener cascade it triggers is part of that action.        *)
(*                                                                         *)
(* Prices are integers counted in 1/256 (order books, trades, inquiries,   *)
(* execution orders) so that the double arithmetic of the source, which is *)
(* exact on these dyadic values, is integer arithmetic here.               *)
(***************************************************************************)
EXTENDS Integers, Sequences, FiniteSets, TLC

VARIABLES pc, calls, lastCall, lastResult, log,
          priceData, algoStreamData, streamCount, priceStreamData,
          orderBookMap, algoExecutionData, algoCount, executionOrderData,
          tradeData, bookCount, positionData, pv01Data, hisData,
          inquiryData, ubRead, listeners

vars == <<pc, calls, lastCall, lastResult, log,
          priceData, algoStreamData, streamCount, priceStreamData,
          orderBookMap, algoExecutionData, algoCount, executionOrderData,
          tradeData, bookCount, positionData, pv01Data, hisData,
          inquiryData, ubRead, listeners>>

----------------------------------------------------------------------------
(* Bounds of the model *)

\* longest stack of the order books BestBidOffer is applied to on its own
MaxStack == 2

\* number of listeners registered after InitializeServices
MaxListeners == 2

\* number of times AggregateDepth is applied to one book
MaxApplications == 2

\* total number of top-level calls (records read + public method calls)
MaxCalls == 3

----------------------------------------------------------------------------
(* Maps (std::map / std::unordered_map) as functions with a finite domain *)

EmptyMap == <<>>

Has(m, k) == k \in DOMAIN m

Put(m, k, v) == [x \in (DOMAIN m) \cup {k} |-> IF x = k THEN v ELSE m[x]]

Erase(m, k) == [x \in (DOMAIN m) \ {k} |-> m[x]]

RECURSIVE SumOver(_, _)
SumOver(f, S) ==
    IF S = {} THEN 0
    ELSE LET x == CHOOSE y \in S : TRUE IN f[x] + SumOver(f, S \ {x})

----------------------------------------------------------------------------
(* Text fields: a string is a sequence of one-character strings *)

Digits == {"0", "1", "2", "3", "4", "5", "6", "7", "8", "9"}

DigitVal == ("0" :> 0) @@ ("1" :> 1) @@ ("2" :> 2) @@ ("3" :> 3) @@ ("4" :> 4)
            @@ ("5" :> 5) @@ ("6" :> 6) @@ ("7" :> 7) @@ ("8" :> 8) @@ ("9" :> 9)

\* number of leading digits of str
RECURSIVE DigitPrefixLen(_)
DigitPrefixLen(str) ==
    IF str = <<>> \/ Head(str) \notin Digits THEN 0
    ELSE 1 + DigitPrefixLen(Tail(str))

RECURSIVE DigitsValue(_, _)
DigitsValue(str, n) ==
    IF n = 0 THEN 0
    ELSE 10 * DigitsValue(str, n - 1) + DigitVal[str[n]]

\* std::stod / std::stol on the alphabet digits, '+', '-', 'q': an optional
\* sign, then the longest run of digits; no digit means std::invalid_argument.
\* Trailing characters are ignored, as strtod/strtol ignore them.
ParseNumber(str) ==
    LET signed == str # <<>> /\ Head(str) \in {"+", "-"}
        body   == IF signed THEN Tail(str) ELSE str
        n      == DigitPrefixLen(body)
        mag    == DigitsValue(body, n)
    IN  [ok  |-> n > 0,
         val |-> IF signed /\ Head(str) = "-" THEN 0 - mag ELSE mag]

\* std::string::find('-'): 1-based index of the first dash, 0 for npos
RECURSIVE FindDash(_, _)
FindDash(str, i) ==
    IF i > Len(str) THEN 0
    ELSE IF str[i] = "-" THEN i
    ELSE FindDash(str, i + 1)

\* std::to_string of a non-negative int
RECURSIVE to_string(_)
to_string(n) ==
    LET digit == CHOOSE d \in Digits : DigitVal[d] = n % 10
    IN  IF n < 10 THEN <<digit>> ELSE Append(to_string(n \div 10), digit)

FRACTIONAL_LENGTH == 3

\* a plausible slip: the length of the fractional part is not checked, the
\* first three characters are read
Frac2Price_NoLengthCheck(PriceFrac) ==
    LET posDash == FindDash(PriceFrac, 1)
        price1  == ParseNumber(SubSeq(PriceFrac, 1, posDash - 1))
        fractionalPart == SubSeq(PriceFrac, posDash + 1, Len(PriceFrac))
        z       == IF fractionalPart[3] = "+" THEN "4" ELSE fractionalPart[3]
        price32  == ParseNumber(SubSeq(fractionalPart, 1, 2))
        price256 == ParseNumber(<<z>>)
    IN  IF posDash = 0 THEN [ok |-> FALSE, val |-> 0]
        ELSE IF ~price1.ok THEN [ok |-> FALSE, val |-> 0]
        ELSE IF Len(fractionalPart) < FRACTIONAL_LENGTH THEN [ok |-> FALSE, val |-> 0]
        ELSE IF ~price32.ok \/ ~price256.ok THEN [ok |-> FALSE, val |-> 0]
        ELSE [ok |-> TRUE, val |-> 256 * price1.val + 8 * price32.val + price256.val]

\* PriceUtils::Frac2Price; the value is in 1/256 (price1 + price32 + price256)
Frac2Price(PriceFrac) ==
    LET posDash == FindDash(PriceFrac, 1)
        price1  == ParseNumber(SubSeq(PriceFrac, 1, posDash - 1))
        fractionalPart == SubSeq(PriceFrac, posDash + 1, Len(PriceFrac))
        z       == IF fractionalPart[3] = "+" THEN "4" ELSE fractionalPart[3]
        price32  == ParseNumber(SubSeq(fractionalPart, 1, 2))
        price256 == ParseNumber(<<z>>)
    IN  IF posDash = 0 THEN [ok |-> FALSE, val |-> 0]
        ELSE IF ~price1.ok THEN [ok |-> FALSE, val |-> 0]
        ELSE IF Len(fractionalPart) # FRACTIONAL_LENGTH THEN [ok |-> FALSE, val |-> 0]
        ELSE IF ~price32.ok \/ ~price256.ok THEN [ok |-> FALSE, val |-> 0]
        ELSE [ok |-> TRUE, val |-> 256 * price1.val + 8 * price32.val + price256.val]

----------------------------------------------------------------------------
(* Static tables *)

\* a plausible slip: the 32nds are printed without the leading zero
Price2Frac_NoPadding(price) ==
    LET intpart  == price \div 256
        fracpart == price - 256 * intpart
        xy == fracpart \div 8
        z  == fracpart % 8
    IN  to_string(intpart) \o <<"-">> \o to_string(xy) \o (IF z = 4 THEN <<"+">> ELSE to_string(z))

\* PriceUtils::Price2Frac of a price in 1/256: xy = int(fracpart * 32),
\* z = int(fracpart * 256) % 8
Price2Frac(price) ==
    LET intpart  == price \div 256
        fracpart == price - 256 * intpart
        xy == fracpart \div 8
        z  == fracpart % 8
    IN  to_string(intpart) \o <<"-">> \o (IF xy < 10 THEN <<"0">> ELSE <<>>) \o to_string(xy)
        \o (IF z = 4 THEN <<"+">> ELSE to_string(z))

\* ProductFactory::QueryProduct: the CUSIPs of the product table that the
\* model draws records for (two of the seven bonds)
ProductTable == {"91282CAV3", "91282CBL4"}

UnknownCusip == "000000000"

\* BondAnalytics::QueryPV01 has the same keys as the product table; the
\* per-unit pv01 is a table value, here in 1e-4 of a currency unit
QueryPV01 == ("91282CAV3" :> 189) @@ ("91282CBL4" :> 279)

----------------------------------------------------------------------------
(* Wiring done by InitializeServices *)

pricingService_listeners == <<"AlgoStreamingServiceListener", "GUIServiceListener">>
algoStreamingService_listeners == <<"StreamingServiceListener">>
streamingService_listeners == <<"HistoricalStreamingListener">>
marketDataService_listeners == <<"AlgoExecutionServiceListener">>
algoExecutionService_listeners == <<"ExecutionServiceListener">>
executionService_listeners == <<"TradeBookingServiceListener", "HistoricalExecutionListener">>
tradeBookingService_listeners == <<"PositionServiceListener">>
positionService_listeners == <<"RiskServiceListener", "HistoricalPositionListener">>
riskService_listeners == <<"HistoricalRiskListener">>
inquiryService_listeners == <<"HistoricalInquiryListener">>

\* the listeners of each service in the order InitializeServices registers them
ListenersOf ==
    [ PricingService       |-> pricingService_listeners,
      AlgoStreamingService |-> algoStreamingService_listeners,
      StreamingService     |-> streamingService_listeners,
      MarketDataService    |-> marketDataService_listeners,
      AlgoExecutionService |-> algoExecutionService_listeners,
      ExecutionService     |-> executionService_listeners,
      TradeBookingService  |-> tradeBookingService_listeners,
      PositionService      |-> positionService_listeners,
      RiskService          |-> riskService_listeners,
      InquiryService       |-> inquiryService_listeners ]

----------------------------------------------------------------------------
(* The program state as one record, so that nested calls compose *)

St == [pc |-> pc, calls |-> calls, lastCall |-> lastCall, lastResult |-> lastResult, log |-> log,
       priceData |-> priceData, algoStreamData |-> algoStreamData,
       streamCount |-> streamCount, priceStreamData |-> priceStreamData,
       orderBookMap |-> orderBookMap, algoExecutionData |-> algoExecutionData,
       algoCount |-> algoCount, executionOrderData |-> executionOrderData,
       tradeData |-> tradeData, bookCount |-> bookCount,
       positionData |-> positionData, pv01Data |-> pv01Data, hisData |-> hisData,
       inquiryData |-> inquiryData, ubRead |-> ubRead]

Commit(s) ==
    /\ pc' = s.pc
    /\ calls' = s.calls
    /\ lastCall' = s.lastCall
    /\ lastResult' = s.lastResult
    /\ log' = s.log
    /\ priceData' = s.priceData
    /\ algoStreamData' = s.algoStreamData
    /\ streamCount' = s.streamCount
    /\ priceStreamData' = s.priceStreamData
    /\ orderBookMap' = s.orderBookMap
    /\ algoExecutionData' = s.algoExecutionData
    /\ algoCount' = s.algoCount
    /\ executionOrderData' = s.executionOrderData
    /\ tradeData' = s.tradeData
    /\ bookCount' = s.bookCount
    /\ positionData' = s.positionData
    /\ pv01Data' = s.pv01Data
    /\ hisData' = s.hisData
    /\ inquiryData' = s.inquiryData
    /\ ubRead' = s.ubRead
    /\ listeners' = listeners

\* One observable effect: a store mutation, a listener notification, a
\* persisted record or a published record, tagged with the top-level call
\* (s.calls) that caused it.
Emit(s, svc, op, key, val) ==
    [s EXCEPT !.log = Append(@, [rec |-> s.calls, svc |-> svc, op |-> op, to |-> "none",
                                  key |-> key, val |-> val])]

\* ProcessAdd invoked on listener l of service svc
EmitNotify(s, svc, l, key, val) ==
    [s EXCEPT !.log = Append(@, [rec |-> s.calls, svc |-> svc, op |-> "notify", to |-> l,
                                  key |-> key, val |-> val])]

----------------------------------------------------------------------------
(* HistoricalDataService *)

\* a plausible slip in the persistence path: the record is written at the
\* head of the output instead of being appended to it
PersistData_NotAppended(s, type, persistKey, data) ==
    [s EXCEPT !.hisData[type] = Put(@, persistKey, data),
              !.log = <<[rec |-> s.calls, svc |-> type, op |-> "persist", to |-> "none",
                         key |-> persistKey, val |-> data]>> \o @]

\* HistoricalDataService::PersistData, reached from
\* HistoricalDataServiceListener::ProcessAdd with the entity's key
PersistData(s, type, persistKey, data) ==
    Emit([s EXCEPT !.hisData[type] = Put(@, persistKey, data)],
         type, "persist", persistKey, data)

----------------------------------------------------------------------------
(* RiskService *)

RiskListener_ProcessAdd(l, s, pv01) ==
    LET n == EmitNotify(s, "RiskService", l, pv01.product, pv01)
    IN  CASE l = "HistoricalRiskListener" -> PersistData(n, "RISK", pv01.product, pv01)
          [] OTHER -> n

RECURSIVE RiskService_Notify(_, _, _)
RiskService_Notify(s, ls, pv01) ==
    IF ls = <<>> THEN s
    ELSE RiskService_Notify(RiskListener_ProcessAdd(Head(ls), s, pv01), Tail(ls), pv01)

\* Position::GetAggregatePosition
GetAggregatePosition(position) == SumOver(position.bookPositionData, DOMAIN position.bookPositionData)

\* a plausible variant: the stored quantity is replaced, not increased
UpdateQuantity_Replace(entry, _quantity) == [entry EXCEPT !.quantity = _quantity]

\* PV01::UpdateQuantity
UpdateQuantity(entry, _quantity) == [entry EXCEPT !.quantity = @ + _quantity]

\* a plausible slip: the insert branch is missing, only an existing entry is
\* updated
RiskService_AddPosition_UpdateOnly(s, position) ==
    LET productId == position.product
        quantity  == GetAggregatePosition(position)
        pv01      == [product |-> productId, pv01 |-> QueryPV01[productId], quantity |-> quantity]
        stored    == IF Has(s.pv01Data, productId)
                     THEN Put(s.pv01Data, productId, UpdateQuantity(s.pv01Data[productId], quantity))
                     ELSE s.pv01Data
    IN  RiskService_Notify([s EXCEPT !.pv01Data = stored], riskService_listeners, pv01)

\* RiskService::AddPosition
RiskService_AddPosition(s, position) ==
    LET productId == position.product
        quantity  == GetAggregatePosition(position)
        pv01Value == QueryPV01[productId]
        pv01      == [product |-> productId, pv01 |-> pv01Value, quantity |-> quantity]
        stored    == IF Has(s.pv01Data, productId)
                     THEN Put(s.pv01Data, productId, UpdateQuantity(s.pv01Data[productId], quantity))
                     ELSE Put(s.pv01Data, productId, pv01)
        s1 == Emit([s EXCEPT !.pv01Data = stored], "RiskService", "store", productId, stored[productId])
    IN  RiskService_Notify(s1, riskService_listeners, pv01)

RECURSIVE CalculateSectorPV01_PerUnit(_, _, _, _)
\* a plausible slip: each member adds its per-unit pv01, not pv01 times quantity
CalculateSectorPV01_PerUnit(s, products, i, acc) ==
    IF i > Len(products) THEN acc
    ELSE IF Has(s.pv01Data, products[i])
         THEN LET pv01 == s.pv01Data[products[i]]
              IN  CalculateSectorPV01_PerUnit(s, products, i + 1,
                      [sum |-> acc.sum + pv01.pv01,
                       totalQuantity |-> acc.totalQuantity + pv01.quantity])
         ELSE CalculateSectorPV01_PerUnit(s, products, i + 1, acc)

RECURSIVE CalculateSectorPV01(_, _, _, _)
\* RiskService::CalculateSectorPV01: std::accumulate over the products of the
\* sector from element i on, totalQuantity being the reference parameter
CalculateSectorPV01(s, products, i, acc) ==
    IF i > Len(products) THEN acc
    ELSE IF Has(s.pv01Data, products[i])
         THEN LET pv01 == s.pv01Data[products[i]]
              IN  CalculateSectorPV01(s, products, i + 1,
                      [sum |-> acc.sum + pv01.pv01 * pv01.quantity,
                       totalQuantity |-> acc.totalQuantity + pv01.quantity])
         ELSE CalculateSectorPV01(s, products, i + 1, acc)

\* RiskService::GetBucketedRisk, a const method
RiskService_GetBucketedRisk(s, sector) ==
    LET total == CalculateSectorPV01(s, sector.products, 1, [sum |-> 0, totalQuantity |-> 0])
    IN  [product |-> sector, pv01 |-> total.sum, quantity |-> total.totalQuantity]

----------------------------------------------------------------------------
(* PositionService *)

PositionListener_ProcessAdd(l, s, productId) ==
    \* the listeners get a reference to the stored Position
    LET position == s.positionData[productId]
        n == EmitNotify(s, "PositionService", l, productId, position)
    IN  CASE l = "RiskServiceListener" -> RiskService_AddPosition(n, position)
          [] l = "HistoricalPositionListener" -> PersistData(n, "POSITION", productId, position)
          [] OTHER -> n

\* a plausible slip: the listeners are walked from the last registered one
RECURSIVE PositionService_Notify_Reversed(_, _, _)
PositionService_Notify_Reversed(s, ls, productId) ==
    IF ls = <<>> THEN s
    ELSE PositionListener_ProcessAdd(Head(ls), PositionService_Notify_Reversed(s, Tail(ls), productId),
                                     productId)

RECURSIVE PositionService_Notify(_, _, _)
PositionService_Notify(s, ls, productId) ==
    IF ls = <<>> THEN s
    ELSE PositionService_Notify(PositionListener_ProcessAdd(Head(ls), s, productId), Tail(ls), productId)

\* signed quantity of a trade, PositionService::AddTrade line 164
SignedQuantity(trade) == IF trade.side = "BUY" THEN trade.quantity ELSE 0 - trade.quantity

\* Position::GetPosition
GetPosition(position, book) ==
    IF Has(position.bookPositionData, book) THEN position.bookPositionData[book] ELSE 0

\* a plausible slip in Position::AddPosition: assignment instead of +=
AddPosition_Overwrite(position, book, qty) ==
    [position EXCEPT !.bookPositionData = Put(@, book, qty)]

\* Position::AddPosition: bookPositionData[book] += position
AddPosition(position, book, qty) ==
    [position EXCEPT !.bookPositionData =
        Put(@, book, (IF Has(@, book) THEN @[book] ELSE 0) + qty)]

\* a plausible slip: a trade id that was booked before is not applied again
PositionService_AddTrade_OncePerTradeId(s, trade) ==
    LET productId == trade.product
        quantity  == IF \E i \in DOMAIN s.log :
                           /\ s.log[i].svc = "TradeBookingService" /\ s.log[i].op = "notify"
                           /\ s.log[i].key = trade.tradeId /\ s.log[i].rec < s.calls
                     THEN 0 ELSE SignedQuantity(trade)
        existing  == IF Has(s.positionData, productId) THEN s.positionData[productId]
                     ELSE [product |-> productId, bookPositionData |-> EmptyMap]
        position  == AddPosition(existing, trade.book, quantity)
        s1 == Emit([s EXCEPT !.positionData = Put(@, productId, position)],
                   "PositionService", "store", productId, position)
    IN  PositionService_Notify(s1, positionService_listeners, productId)

\* PositionService::AddTrade
PositionService_AddTrade(s, trade) ==
    LET productId == trade.product
        quantity  == SignedQuantity(trade)
        existing  == IF Has(s.positionData, productId) THEN s.positionData[productId]
                     ELSE [product |-> productId, bookPositionData |-> EmptyMap]
        position  == AddPosition(existing, trade.book, quantity)
        s1 == Emit([s EXCEPT !.positionData = Put(@, productId, position)],
                   "PositionService", "store", productId, position)
    IN  PositionService_Notify(s1, positionService_listeners, productId)

----------------------------------------------------------------------------
(* TradeBookingService *)

TradeListener_ProcessAdd(l, s, trade) ==
    LET n == EmitNotify(s, "TradeBookingService", l, trade.tradeId, trade)
    IN  CASE l = "PositionServiceListener" -> PositionService_AddTrade(n, trade)
          [] OTHER -> n

RECURSIVE TradeBookingService_Notify(_, _, _)
TradeBookingService_Notify(s, ls, trade) ==
    IF ls = <<>> THEN s
    ELSE TradeBookingService_Notify(TradeListener_ProcessAdd(Head(ls), s, trade), Tail(ls), trade)

\* a plausible slip: the listeners are notified only when the trade id is new
TradeBookingService_OnMessage_NotifyNewOnly(s, data) ==
    LET key == data.tradeId
        s1  == Emit([s EXCEPT !.tradeData = Put(@, key, data)],
                    "TradeBookingService", "store", key, data)
    IN  IF Has(s.tradeData, key) THEN s1
        ELSE TradeBookingService_Notify(s1, tradeBookingService_listeners, data)

\* TradeBookingService::OnMessage
TradeBookingService_OnMessage(s, data) ==
    LET key == data.tradeId
        s1  == Emit([s EXCEPT !.tradeData = Put(@, key, data)],
                    "TradeBookingService", "store", key, data)
    IN  TradeBookingService_Notify(s1, tradeBookingService_listeners, data)

\* a plausible slip: BookTrade keeps the trade the way OnMessage does
TradeBookingService_BookTrade_Stored(s, trade) ==
    TradeBookingService_Notify(
        Emit([s EXCEPT !.tradeData = Put(@, trade.tradeId, trade)],
             "TradeBookingService", "store", trade.tradeId, trade),
        tradeBookingService_listeners, trade)

\* TradeBookingService::BookTrade
TradeBookingService_BookTrade(s, trade) ==
    TradeBookingService_Notify(s, tradeBookingService_listeners, trade)

\* One iteration of the loop of TradeBookingConnector::Subscribe on the line
\* CUSIP,TradeId,Price,Book,Quantity,Side
TradeBookingConnector_Subscribe(s, line) ==
    LET price    == Frac2Price(line.price)
        quantity == ParseNumber(line.quantity)
        side     == IF line.side = "BUY" THEN "BUY" ELSE "SELL"
        trade    == [product |-> line.cusip, tradeId |-> line.tradeId, price |-> price.val,
                     book |-> line.book, quantity |-> quantity.val, side |-> side]
    IN  IF line.cusip \notin ProductTable THEN [s EXCEPT !.lastResult = "UnknownProduct"]
        ELSE IF ~price.ok \/ ~quantity.ok THEN [s EXCEPT !.lastResult = "MalformedInput"]
        ELSE TradeBookingService_OnMessage([s EXCEPT !.lastResult = "ok"], trade)

\* a plausible slip: the hidden quantity is left out of the trade
TradeBookingServiceListener_ProcessAdd_VisibleOnly(s, order) ==
    LET tradeSide == IF order.side = "BID" THEN "BUY" ELSE "SELL"
        book  == <<"TRSY1", "TRSY2", "TRSY3">>[(s.bookCount % 3) + 1]
        trade == [product |-> order.product, tradeId |-> order.orderId, price |-> order.price,
                  book |-> book, quantity |-> order.visibleQuantity, side |-> tradeSide]
    IN  TradeBookingService_BookTrade([s EXCEPT !.bookCount = @ + 1], trade)

\* a plausible slip: the rotation counter is incremented before it is used
TradeBookingServiceListener_ProcessAdd_PreIncrement(s, order) ==
    LET totalQuantity == order.visibleQuantity + order.hiddenQuantity
        tradeSide == IF order.side = "BID" THEN "BUY" ELSE "SELL"
        book  == <<"TRSY1", "TRSY2", "TRSY3">>[((s.bookCount + 1) % 3) + 1]
        trade == [product |-> order.product, tradeId |-> order.orderId, price |-> order.price,
                  book |-> book, quantity |-> totalQuantity, side |-> tradeSide]
    IN  TradeBookingService_BookTrade([s EXCEPT !.bookCount = @ + 1], trade)

\* TradeBookingServiceListener::ProcessAdd: a trade synthesised from an
\* ExecutionOrder, booked through BookTrade
TradeBookingServiceListener_ProcessAdd(s, order) ==
    LET totalQuantity == order.visibleQuantity + order.hiddenQuantity
        tradeSide == IF order.side = "BID" THEN "BUY" ELSE "SELL"
        book  == <<"TRSY1", "TRSY2", "TRSY3">>[(s.bookCount % 3) + 1]
        trade == [product |-> order.product, tradeId |-> order.orderId, price |-> order.price,
                  book |-> book, quantity |-> totalQuantity, side |-> tradeSide]
    IN  TradeBookingService_BookTrade([s EXCEPT !.bookCount = @ + 1], trade)

----------------------------------------------------------------------------
(* ExecutionService *)

\* ExecutionService::ExecutionService sets connector(nullptr)
executionService_connector == "nullptr"

ExecutionListener_ProcessAdd(l, s, executionOrder) ==
    LET n == EmitNotify(s, "ExecutionService", l, executionOrder.orderId, executionOrder)
    IN  CASE l = "TradeBookingServiceListener" -> TradeBookingServiceListener_ProcessAdd(n, executionOrder)
          [] l = "HistoricalExecutionListener" ->
                PersistData(n, "EXECUTION", executionOrder.orderId, executionOrder)
          [] OTHER -> n

\* a plausible slip: the listeners are walked from the last registered one
RECURSIVE ExecutionService_Notify_Reversed(_, _, _)
ExecutionService_Notify_Reversed(s, ls, executionOrder) ==
    IF ls = <<>> THEN s
    ELSE ExecutionListener_ProcessAdd(Head(ls),
             ExecutionService_Notify_Reversed(s, Tail(ls), executionOrder), executionOrder)

RECURSIVE ExecutionService_Notify(_, _, _)
ExecutionService_Notify(s, ls, executionOrder) ==
    IF ls = <<>> THEN s
    ELSE ExecutionService_Notify(ExecutionListener_ProcessAdd(Head(ls), s, executionOrder),
                                 Tail(ls), executionOrder)

\* ExecutionService::AddExecutionOrder
ExecutionService_AddExecutionOrder(s, algoExecution) ==
    LET executionOrder == algoExecution.executionOrder
        orderId == executionOrder.orderId
        s1 == Emit([s EXCEPT !.executionOrderData = Put(Erase(@, orderId), orderId, executionOrder)],
                   "ExecutionService", "store", orderId, executionOrder)
    IN  ExecutionService_Notify(s1, executionService_listeners, executionOrder)

\* ExecutionService::ExecuteOrder: publishes only when a connector is set
ExecutionService_ExecuteOrder(s, order, market) ==
    IF executionService_connector # "nullptr"
    THEN Emit(s, "ExecutionService", "publish", order.orderId, [order |-> order, market |-> market])
    ELSE s

\* ExecutionServiceListener::ProcessAdd
ExecutionServiceListener_ProcessAdd(s, data) ==
    ExecutionService_ExecuteOrder(ExecutionService_AddExecutionOrder(s, data),
                                  data.executionOrder, data.market)

----------------------------------------------------------------------------
(* MarketDataService order books and AlgoExecutionService *)

RECURSIVE MaxPriceIndex(_, _, _)
\* std::max_element with ComparePriceAsc: the first element no later element
\* compares greater than
MaxPriceIndex(stack, i, best) ==
    IF i > Len(stack) THEN best
    ELSE MaxPriceIndex(stack, i + 1, IF stack[best].price < stack[i].price THEN i ELSE best)

RECURSIVE MinPriceIndex(_, _, _)
\* std::min_element with ComparePriceAsc
MinPriceIndex(stack, i, best) ==
    IF i > Len(stack) THEN best
    ELSE MinPriceIndex(stack, i + 1, IF stack[i].price < stack[best].price THEN i ELSE best)

\* a plausible slip: the stacks are taken to be sorted best first
BestBidOffer_FirstOfStack(orderBook) ==
    [bidOrder |-> orderBook.bidStack[1], offerOrder |-> orderBook.offerStack[1]]

\* OrderBook::BestBidOffer, defined on non-empty stacks
BestBidOffer(orderBook) ==
    [bidOrder   |-> orderBook.bidStack[MaxPriceIndex(orderBook.bidStack, 1, 1)],
     offerOrder |-> orderBook.offerStack[MinPriceIndex(orderBook.offerStack, 1, 1)]]

\* 1.0/128.0 in 1/256
SpreadGate == 2

\* a plausible slip in the factory: the parity test of the tight branch is
\* inverted
CreateExecutionOrder_ParityInverted(orderBook, count, ids) ==
    LET bidOffer == BestBidOffer(orderBook)
        tight == bidOffer.offerOrder.price - bidOffer.bidOrder.price <= SpreadGate
        crossOffer == tight /\ count % 2 = 0
    IN  [product |-> orderBook.product, side |-> IF crossOffer THEN "OFFER" ELSE "BID",
         orderId |-> ids.orderId, orderType |-> "MARKET",
         price |-> IF tight /\ ~crossOffer THEN bidOffer.offerOrder.price ELSE bidOffer.bidOrder.price,
         visibleQuantity |-> IF crossOffer THEN bidOffer.offerOrder.quantity ELSE bidOffer.bidOrder.quantity,
         hiddenQuantity |-> 0, parentOrderId |-> ids.parentOrderId, isChildOrder |-> FALSE]

\* SimpleAlgoOrderFactory::CreateExecutionOrder; ids are the two random ids
CreateExecutionOrder(orderBook, count, ids) ==
    LET bidOffer == BestBidOffer(orderBook)
        bidPrice == bidOffer.bidOrder.price
        offerPrice == bidOffer.offerOrder.price
        bidQuantity == bidOffer.bidOrder.quantity
        offerQuantity == bidOffer.offerOrder.quantity
        tight == offerPrice - bidPrice <= SpreadGate
        side  == IF tight /\ count % 2 # 0 THEN "OFFER" ELSE "BID"
        price == IF tight THEN (IF count % 2 = 0 THEN offerPrice ELSE bidPrice) ELSE bidPrice
        quantity == IF tight /\ count % 2 # 0 THEN offerQuantity ELSE bidQuantity
    IN  [product |-> orderBook.product, side |-> side, orderId |-> ids.orderId,
         orderType |-> "MARKET", price |-> price, visibleQuantity |-> quantity,
         hiddenQuantity |-> 0, parentOrderId |-> ids.parentOrderId, isChildOrder |-> FALSE]

AlgoExecutionListener_ProcessAdd(l, s, algoExecution) ==
    LET n == EmitNotify(s, "AlgoExecutionService", l, algoExecution.executionOrder.product, algoExecution)
    IN  CASE l = "ExecutionServiceListener" -> ExecutionServiceListener_ProcessAdd(n, algoExecution)
          [] OTHER -> n

RECURSIVE AlgoExecutionService_Notify(_, _, _)
AlgoExecutionService_Notify(s, ls, algoExecution) ==
    IF ls = <<>> THEN s
    ELSE AlgoExecutionService_Notify(AlgoExecutionListener_ProcessAdd(Head(ls), s, algoExecution),
                                     Tail(ls), algoExecution)

\* AlgoExecutionService::AlgoExecuteOrder
AlgoExecuteOrder(s, orderBook, ids) ==
    LET execOrder == CreateExecutionOrder(orderBook, s.algoCount, ids)
        algoExecutionObj == [executionOrder |-> execOrder, market |-> "BROKERTEC"]
        key == execOrder.product
        s1  == Emit([s EXCEPT !.algoCount = @ + 1,
                              !.algoExecutionData = Put(@, key, algoExecutionObj)],
                    "AlgoExecutionService", "store", key, algoExecutionObj)
    IN  AlgoExecutionService_Notify(s1, algoExecutionService_listeners, algoExecutionObj)

MarketDataListener_ProcessAdd(l, s, orderBook, ids) ==
    LET n == EmitNotify(s, "MarketDataService", l, orderBook.product, orderBook)
    IN  CASE l = "AlgoExecutionServiceListener" -> AlgoExecuteOrder(n, orderBook, ids)
          [] OTHER -> n

RECURSIVE MarketDataService_Notify(_, _, _, _)
MarketDataService_Notify(s, ls, orderBook, ids) ==
    IF ls = <<>> THEN s
    ELSE MarketDataService_Notify(MarketDataListener_ProcessAdd(Head(ls), s, orderBook, ids),
                                  Tail(ls), orderBook, ids)

\* MarketDataService::OnMessage
MarketDataService_OnMessage(s, data, ids) ==
    LET key == data.product
        s1  == Emit([s EXCEPT !.orderBookMap = Put(@, key, data)],
                    "MarketDataService", "store", key, data)
    IN  MarketDataService_Notify(s1, marketDataService_listeners, data, ids)

\* MarketDataService::MarketDataService sets bookDepth(5)
bookDepth == 5

\* MarketDataService::GetData: a missing key creates an empty book for the
\* product (ProductFactory::QueryProduct throws for an unknown CUSIP)
MarketDataService_GetData(s, key) ==
    IF Has(s.orderBookMap, key) THEN [s EXCEPT !.lastResult = "ok"]
    ELSE IF key \notin ProductTable THEN [s EXCEPT !.lastResult = "UnknownProduct"]
    ELSE [s EXCEPT !.lastResult = "ok",
                   !.orderBookMap = Put(@, key, [product |-> key, bidStack |-> <<>>, offerStack |-> <<>>])]

RECURSIVE AppendLevels_BothToBidStack(_, _, _)
\* a plausible slip: the offer order of a level is appended to the bid stack too
AppendLevels_BothToBidStack(book, levels, i) ==
    IF i > bookDepth THEN [ok |-> TRUE, book |-> book]
    ELSE LET lv == levels[i]
             bp == Frac2Price(lv.bid)
             bq == ParseNumber(lv.bidSize)
             ap == Frac2Price(lv.ask)
             aq == ParseNumber(lv.askSize)
             withBid == [book EXCEPT !.bidStack =
                            Append(@, [price |-> bp.val, quantity |-> bq.val, side |-> "BID"])]
             withAsk == [withBid EXCEPT !.bidStack =
                            Append(@, [price |-> ap.val, quantity |-> aq.val, side |-> "OFFER"])]
         IN  IF ~bp.ok \/ ~bq.ok THEN [ok |-> FALSE, book |-> book]
             ELSE IF ~ap.ok \/ ~aq.ok THEN [ok |-> FALSE, book |-> withBid]
             ELSE AppendLevels_BothToBidStack(withAsk, levels, i + 1)

\* the loop of MarketDataConnector::ParseOrderBook from level i on: each level
\* appends its bid order, then its offer order, to the stored book; a field
\* that does not parse throws and leaves what was appended before it
RECURSIVE AppendLevels(_, _, _)
AppendLevels(book, levels, i) ==
    IF i > bookDepth THEN [ok |-> TRUE, book |-> book]
    ELSE LET lv == levels[i]
             bp == Frac2Price(lv.bid)
             bq == ParseNumber(lv.bidSize)
             ap == Frac2Price(lv.ask)
             aq == ParseNumber(lv.askSize)
             withBid == [book EXCEPT !.bidStack =
                            Append(@, [price |-> bp.val, quantity |-> bq.val, side |-> "BID"])]
             withAsk == [withBid EXCEPT !.offerStack =
                            Append(@, [price |-> ap.val, quantity |-> aq.val, side |-> "OFFER"])]
         IN  IF ~bp.ok \/ ~bq.ok THEN [ok |-> FALSE, book |-> book]
             ELSE IF ~ap.ok \/ ~aq.ok THEN [ok |-> FALSE, book |-> withBid]
             ELSE AppendLevels(withAsk, levels, i + 1)

StackPrices(stack) == {stack[i].price : i \in DOMAIN stack}

RECURSIVE PriceQuantity_WholeStack(_, _)
\* a plausible slip: every aggregated order carries the quantity of the whole stack
PriceQuantity_WholeStack(stack, price) ==
    IF stack = <<>> THEN 0
    ELSE Head(stack).quantity + PriceQuantity_WholeStack(Tail(stack), price)

\* priceMap[order.GetPrice()] += order.GetQuantity() over the stack
RECURSIVE PriceQuantity(_, _)
PriceQuantity(stack, price) ==
    IF stack = <<>> THEN 0
    ELSE (IF Head(stack).price = price THEN Head(stack).quantity ELSE 0)
         + PriceQuantity(Tail(stack), price)

\* MarketDataService::Aggregate: one order per distinct price; the vector
\* follows the iteration order of an unordered_map, which is unspecified, so
\* the result is any enumeration of the aggregated orders
Aggregate(stack, side) ==
    LET prices == StackPrices(stack)
        n == Cardinality(prices)
    IN  { [i \in 1..n |-> [price |-> f[i], quantity |-> PriceQuantity(stack, f[i]), side |-> side]] :
            f \in {g \in [1..n -> prices] : \A i, j \in 1..n : i # j => g[i] # g[j]} }

\* MarketDataService::AggregateDepth, the set of books it may produce
AggregateDepth(orderBook) ==
    { [product |-> orderBook.product, bidStack |-> b, offerStack |-> o] :
        b \in Aggregate(orderBook.bidStack, "BID"), o \in Aggregate(orderBook.offerStack, "OFFER") }

\* a plausible slip: each line starts from a fresh book instead of the stored one
ParseOrderBook_FreshBook(s, line) ==
    LET g == MarketDataService_GetData(s, line.cusip)
        r == AppendLevels([product |-> line.cusip, bidStack |-> <<>>, offerStack |-> <<>>],
                          line.levels, 1)
    IN  IF g.lastResult # "ok" THEN g
        ELSE [g EXCEPT !.orderBookMap = Put(@, line.cusip, r.book),
                       !.lastResult = IF r.ok THEN "ok" ELSE "MalformedInput"]

\* MarketDataConnector::ParseOrderBook up to the call of AggregateDepth
ParseOrderBook(s, line) ==
    LET g == MarketDataService_GetData(s, line.cusip)
        r == AppendLevels(g.orderBookMap[line.cusip], line.levels, 1)
    IN  IF g.lastResult # "ok" THEN g
        ELSE [g EXCEPT !.orderBookMap = Put(@, line.cusip, r.book),
                       !.lastResult = IF r.ok THEN "ok" ELSE "MalformedInput"]

\* One iteration of the loop of MarketDataConnector::Subscribe; aggregated is
\* the book AggregateDepth returned, ids the random ids the factory draws
MarketDataConnector_Subscribe(s, line, aggregated, ids) ==
    LET p == ParseOrderBook(s, line)
    IN  IF p.lastResult # "ok" THEN p
        ELSE MarketDataService_OnMessage(
                 [p EXCEPT !.orderBookMap = Put(@, line.cusip, aggregated)], aggregated, ids)

----------------------------------------------------------------------------
(* PricingService, AlgoStreamingService, StreamingService, GUIService;     *)
(* Price, PriceStream values are in 1/512                                  *)

StreamingListener_ProcessAdd(l, s, priceStream) ==
    LET n == EmitNotify(s, "StreamingService", l, priceStream.product, priceStream)
    IN  CASE l = "HistoricalStreamingListener" ->
                PersistData(n, "STREAMING", priceStream.product, priceStream)
          [] OTHER -> n

RECURSIVE StreamingService_Notify(_, _, _)
StreamingService_Notify(s, ls, priceStream) ==
    IF ls = <<>> THEN s
    ELSE StreamingService_Notify(StreamingListener_ProcessAdd(Head(ls), s, priceStream),
                                 Tail(ls), priceStream)

\* StreamingService::AddPriceStream
StreamingService_AddPriceStream(s, algoStream) ==
    LET priceStream == algoStream.priceStream
        key == priceStream.product
        s1  == Emit([s EXCEPT !.priceStreamData = Put(Erase(@, key), key, priceStream)],
                    "StreamingService", "store", key, priceStream)
    IN  StreamingService_Notify(s1, streamingService_listeners, priceStream)

\* StreamingService::PublishPrice calls through the connector member, which
\* the constructor never initialises: the call either reaches
\* StreamingServiceConnector::Publish or faults
StreamingService_PublishPrice(s, priceStream, ub) ==
    IF ub = "fault" THEN [s EXCEPT !.lastResult = "crash"]
    ELSE Emit(s, "StreamingService", "publish", priceStream.product, priceStream)

\* StreamingServiceListener::ProcessAdd
StreamingServiceListener_ProcessAdd(s, data, ub) ==
    StreamingService_PublishPrice(StreamingService_AddPriceStream(s, data), data.priceStream, ub)

AlgoStreamListener_ProcessAdd(l, s, algoStream, ub) ==
    LET n == EmitNotify(s, "AlgoStreamingService", l, algoStream.priceStream.product, algoStream)
    IN  CASE l = "StreamingServiceListener" -> StreamingServiceListener_ProcessAdd(n, algoStream, ub)
          [] OTHER -> n

RECURSIVE AlgoStreamingService_Notify(_, _, _, _)
AlgoStreamingService_Notify(s, ls, algoStream, ub) ==
    IF ls = <<>> \/ s.lastResult = "crash" THEN s
    ELSE AlgoStreamingService_Notify(AlgoStreamListener_ProcessAdd(Head(ls), s, algoStream, ub),
                                     Tail(ls), algoStream, ub)

\* a plausible slip: the whole spread is taken off the mid on each side
PublishAlgoStream_FullSpread(s, price, ub) ==
    LET key == price.product
        bidPrice == price.mid - price.bidOfferSpread
        offerPrice == price.mid + price.bidOfferSpread
        visibleQuantity == IF s.streamCount % 2 = 0 THEN 1000000 ELSE 2000000
        hiddenQuantity == visibleQuantity * 2
        bidOrder == [price |-> bidPrice, visibleQuantity |-> visibleQuantity,
                     hiddenQuantity |-> hiddenQuantity, side |-> "BID"]
        offerOrder == [price |-> offerPrice, visibleQuantity |-> visibleQuantity,
                       hiddenQuantity |-> hiddenQuantity, side |-> "OFFER"]
        algoStream == [priceStream |-> [product |-> key, bidOrder |-> bidOrder, offerOrder |-> offerOrder]]
        s1 == Emit([s EXCEPT !.streamCount = @ + 1,
                             !.algoStreamData = Put(Erase(@, key), key, algoStream)],
                   "AlgoStreamingService", "store", key, algoStream)
    IN  AlgoStreamingService_Notify(s1, algoStreamingService_listeners, algoStream, ub)

\* a plausible slip: the alternation counter advances by two per price
PublishAlgoStream_CountSkips(s, price, ub) ==
    LET key == price.product
        bidPrice == price.mid - price.bidOfferSpread \div 2
        offerPrice == price.mid + price.bidOfferSpread \div 2
        visibleQuantity == IF s.streamCount % 2 = 0 THEN 1000000 ELSE 2000000
        hiddenQuantity == visibleQuantity * 2
        bidOrder == [price |-> bidPrice, visibleQuantity |-> visibleQuantity,
                     hiddenQuantity |-> hiddenQuantity, side |-> "BID"]
        offerOrder == [price |-> offerPrice, visibleQuantity |-> visibleQuantity,
                       hiddenQuantity |-> hiddenQuantity, side |-> "OFFER"]
        algoStream == [priceStream |-> [product |-> key, bidOrder |-> bidOrder, offerOrder |-> offerOrder]]
        s1 == Emit([s EXCEPT !.streamCount = @ + 2,
                             !.algoStreamData = Put(Erase(@, key), key, algoStream)],
                   "AlgoStreamingService", "store", key, algoStream)
    IN  AlgoStreamingService_Notify(s1, algoStreamingService_listeners, algoStream, ub)

\* AlgoStreamingService::PublishAlgoStream
PublishAlgoStream(s, price, ub) ==
    LET key == price.product
        bidPrice == price.mid - price.bidOfferSpread \div 2
        offerPrice == price.mid + price.bidOfferSpread \div 2
        visibleQuantity == IF s.streamCount % 2 = 0 THEN 1000000 ELSE 2000000
        hiddenQuantity == visibleQuantity * 2
        bidOrder == [price |-> bidPrice, visibleQuantity |-> visibleQuantity,
                     hiddenQuantity |-> hiddenQuantity, side |-> "BID"]
        offerOrder == [price |-> offerPrice, visibleQuantity |-> visibleQuantity,
                       hiddenQuantity |-> hiddenQuantity, side |-> "OFFER"]
        algoStream == [priceStream |-> [product |-> key, bidOrder |-> bidOrder, offerOrder |-> offerOrder]]
        s1 == Emit([s EXCEPT !.streamCount = @ + 1,
                             !.algoStreamData = Put(Erase(@, key), key, algoStream)],
                   "AlgoStreamingService", "store", key, algoStream)
    IN  AlgoStreamingService_Notify(s1, algoStreamingService_listeners, algoStream, ub)

\* GUIService::PublishThrottledPrice: publishes when more than the throttle
\* interval has elapsed since the last publish; elapsed is the clock's answer
PublishThrottledPrice(s, price, elapsed) ==
    IF elapsed THEN Emit(s, "GUIService", "publish", price.product, price) ELSE s

PricingListener_ProcessAdd(l, s, price, elapsed, ub) ==
    LET n == EmitNotify(s, "PricingService", l, price.product, price)
    IN  CASE l = "AlgoStreamingServiceListener" -> PublishAlgoStream(n, price, ub)
          [] l = "GUIServiceListener" -> PublishThrottledPrice(n, price, elapsed)
          [] OTHER -> n

RECURSIVE PricingService_Notify(_, _, _, _, _)
PricingService_Notify(s, ls, price, elapsed, ub) ==
    IF ls = <<>> \/ s.lastResult = "crash" THEN s
    ELSE PricingService_Notify(PricingListener_ProcessAdd(Head(ls), s, price, elapsed, ub),
                               Tail(ls), price, elapsed, ub)

\* a plausible slip: map::insert without the erase keeps the first price
PricingService_OnMessage_InsertOnly(s, data, elapsed, ub) ==
    LET key == data.product
        s1  == Emit([s EXCEPT !.priceData = IF Has(@, key) THEN @ ELSE Put(@, key, data)],
                    "PricingService", "store", key, data)
    IN  PricingService_Notify(s1, pricingService_listeners, data, elapsed, ub)

\* PricingService::OnMessage
PricingService_OnMessage(s, data, elapsed, ub) ==
    LET key == data.product
        s1  == Emit([s EXCEPT !.priceData = Put(Erase(@, key), key, data)],
                    "PricingService", "store", key, data)
    IN  PricingService_Notify(s1, pricingService_listeners, data, elapsed, ub)

\* One iteration of the loop of PricingConnector::Subscribe on the line
\* Timestamp,CUSIP,Bid,Ask,Spread
PricingConnector_Subscribe(s, line, elapsed, ub) ==
    LET bid == Frac2Price(line.bid)
        ask == Frac2Price(line.ask)
        mid == (2 * bid.val + 2 * ask.val) \div 2
        spread == 2 * ask.val - 2 * bid.val
        price == [product |-> line.cusip, mid |-> mid, bidOfferSpread |-> spread]
    IN  IF ~bid.ok \/ ~ask.ok THEN [s EXCEPT !.lastResult = "MalformedInput"]
        ELSE IF line.cusip \notin ProductTable THEN [s EXCEPT !.lastResult = "UnknownProduct"]
        ELSE PricingService_OnMessage([s EXCEPT !.lastResult = "ok"], price, elapsed, ub)

----------------------------------------------------------------------------
(* InquiryService *)

InquiryStates == {"RECEIVED", "QUOTED", "DONE", "REJECTED", "CUSTOMER_REJECTED"}

InquiryListener_ProcessAdd(l, s, data) ==
    LET n == EmitNotify(s, "InquiryService", l, data.inquiryId, data)
    IN  CASE l = "HistoricalInquiryListener" -> PersistData(n, "INQUIRY", data.inquiryId, data)
          [] OTHER -> n

RECURSIVE InquiryService_Notify(_, _, _)
InquiryService_Notify(s, ls, data) ==
    IF ls = <<>> THEN s
    ELSE InquiryService_Notify(InquiryListener_ProcessAdd(Head(ls), s, data), Tail(ls), data)

\* a plausible slip in the tail of InquiryService::OnMessage: the record is
\* updated in the store whatever its state, a DONE inquiry is never removed
InquiryService_Finish_NoEvict(r) ==
    LET id == r.data.inquiryId
        s1 == Emit([r.s EXCEPT !.inquiryData = Put(@, id, r.data)], "InquiryService", "store", id, r.data)
    IN  [s |-> InquiryService_Notify(s1, inquiryService_listeners, r.data), data |-> r.data]

\* a plausible slip in the tail of InquiryService::OnMessage: a REJECTED
\* inquiry is removed like a DONE one
InquiryService_Finish_EvictRejected(r) ==
    LET id == r.data.inquiryId
        s1 == IF r.data.state \in {"DONE", "REJECTED"}
              THEN Emit([r.s EXCEPT !.inquiryData = Erase(@, id)], "InquiryService", "erase", id, r.data)
              ELSE Emit([r.s EXCEPT !.inquiryData = Put(@, id, r.data)], "InquiryService", "store", id, r.data)
    IN  [s |-> InquiryService_Notify(s1, inquiryService_listeners, r.data), data |-> r.data]

\* the part of InquiryService::OnMessage after the switch (lines 220-235);
\* r.s is the program state, r.data the inquiry the caller's reference names
InquiryService_Finish(r) ==
    LET id == r.data.inquiryId
        s1 == IF r.data.state = "DONE"
              THEN Emit([r.s EXCEPT !.inquiryData = Erase(@, id)], "InquiryService", "erase", id, r.data)
              ELSE Emit([r.s EXCEPT !.inquiryData = Put(@, id, r.data)], "InquiryService", "store", id, r.data)
    IN  [s |-> InquiryService_Notify(s1, inquiryService_listeners, r.data), data |-> r.data]

\* case QUOTED of InquiryService::OnMessage (lines 203-215).  With aliased
\* the argument is the stored entry itself (SendQuote passes GetData's
\* reference): erase destroys it and the insert, the notification and
\* everything after read a dangling reference, which either still shows the
\* old bytes (ub = "intact") or faults (ub = "fault").
InquiryService_Quoted(s, data, aliased, ub) ==
    LET id   == data.inquiryId
        done == [data EXCEPT !.state = "DONE"]
        sd   == IF aliased THEN [s EXCEPT !.inquiryData = Put(@, id, done)] ELSE s
        dangling == aliased /\ Has(sd.inquiryData, id)
        s1 == [sd EXCEPT !.inquiryData = Erase(@, id), !.ubRead = @ \/ dangling]
        s2 == Emit([s1 EXCEPT !.inquiryData = Put(@, id, done)], "InquiryService", "store", id, done)
    IN  IF dangling /\ ub = "fault"
        THEN [s |-> [s1 EXCEPT !.lastResult = "crash"], data |-> done]
        ELSE [s |-> InquiryService_Notify(s2, inquiryService_listeners, done), data |-> done]

\* InquiryService::OnMessage entered with an inquiry that is not RECEIVED
InquiryService_OnMessageInner(s, data, depth, aliased, ub) ==
    LET e == Emit(s, "InquiryService", "OnMessage", data.inquiryId, [depth |-> depth, state |-> data.state])
        r == IF data.state = "QUOTED" THEN InquiryService_Quoted(e, data, aliased, ub)
             ELSE [s |-> e, data |-> data]
    IN  IF r.s.lastResult = "crash" THEN r ELSE InquiryService_Finish(r)

\* a plausible slip: the connector only sends the quote out and does not feed
\* the inquiry back into the service
InquiryConnector_Publish_SendOnly(s, data, depth) ==
    [s |-> s, data |-> data]

\* InquiryConnector::Publish: a RECEIVED inquiry is set to QUOTED and fed back
\* into OnMessage
InquiryConnector_Publish(s, data, depth) ==
    IF data.state = "RECEIVED"
    THEN InquiryService_OnMessageInner(s, [data EXCEPT !.state = "QUOTED"], depth + 1, FALSE, "intact")
    ELSE [s |-> s, data |-> data]

\* InquiryService::OnMessage
InquiryService_OnMessage(s, data, aliased, ub) ==
    IF data.state = "RECEIVED"
    THEN InquiryService_Finish(
             InquiryConnector_Publish(
                 Emit(s, "InquiryService", "OnMessage", data.inquiryId, [depth |-> 1, state |-> data.state]),
                 data, 1))
    ELSE InquiryService_OnMessageInner(s, data, 1, aliased, ub)

\* InquiryService::GetData
InquiryService_GetData(s, key) ==
    IF Has(s.inquiryData, key) THEN [s EXCEPT !.lastResult = "ok"]
    ELSE [s EXCEPT !.lastResult = "NotFound"]

\* InquiryService::SendQuote: the state and price are set on the stored entry
InquiryService_SendQuote(s, inquiryId, price, ub) ==
    LET g == InquiryService_GetData(s, inquiryId)
        inquiry == [g.inquiryData[inquiryId] EXCEPT !.price = price, !.state = "QUOTED"]
    IN  IF g.lastResult # "ok" THEN g
        ELSE InquiryService_OnMessage([g EXCEPT !.inquiryData = Put(@, inquiryId, inquiry)],
                                      inquiry, TRUE, ub).s

\* InquiryService::RejectInquiry
InquiryService_RejectInquiry(s, inquiryId) ==
    LET g == InquiryService_GetData(s, inquiryId)
        inquiry == [g.inquiryData[inquiryId] EXCEPT !.state = "REJECTED"]
    IN  IF g.lastResult # "ok" THEN g
        ELSE InquiryService_OnMessage([g EXCEPT !.inquiryData = Put(@, inquiryId, inquiry)],
                                      inquiry, TRUE, "intact").s

\* InquiryConnector::StringToState
StringToState(stateStr) ==
    IF stateStr \in {"RECEIVED", "QUOTED", "DONE", "REJECTED"} THEN stateStr ELSE "CUSTOMER_REJECTED"

\* One iteration of the loop of InquiryConnector::Subscribe on the line
\* InquiryId,CUSIP,Side,Quantity,Price,Status
InquiryConnector_Subscribe(s, line) ==
    LET side == IF line.side = "BUY" THEN "BUY" ELSE "SELL"
        quantity == ParseNumber(line.quantity)
        price == Frac2Price(line.price)
        inquiry == [inquiryId |-> line.inquiryId, product |-> line.cusip, side |-> side,
                    quantity |-> quantity.val, price |-> price.val, state |-> StringToState(line.state)]
    IN  IF line.cusip \notin ProductTable THEN [s EXCEPT !.lastResult = "UnknownProduct"]
        ELSE IF ~quantity.ok \/ ~price.ok THEN [s EXCEPT !.lastResult = "MalformedInput"]
        ELSE InquiryService_OnMessage([s EXCEPT !.lastResult = "ok"], inquiry, FALSE, "intact").s

----------------------------------------------------------------------------
(* Input records *)

F100_000 == <<"1", "0", "0", "-", "0", "0", "0">>
F100_002 == <<"1", "0", "0", "-", "0", "0", "2">>
F99_316  == <<"9", "9", "-", "3", "1", "6">>
F99_31p  == <<"9", "9", "-", "3", "1", "+">>
\* four characters after the dash
F99_162p == <<"9", "9", "-", "1", "6", "2", "+">>

GoodFracs == {F100_000, F100_002, F99_316, F99_31p}

\* the second product is quoted at one bid only
PriceLines ==
    { l \in [cusip : ProductTable, bid : {F99_316, F99_31p}, ask : {F100_000}] :
        l.cusip = "91282CBL4" => l.bid = F99_316 }
    \cup [cusip : {UnknownCusip}, bid : {F99_316}, ask : {F100_000}]
    \cup [cusip : {"91282CAV3"}, bid : {F99_162p}, ask : {F100_000}]

Lv(b, bs, a, as) == [bid |-> b, bidSize |-> bs, ask |-> a, askSize |-> as]

\* five levels with a tight best spread, two bid prices and one offer price
LevelsTight ==
    << Lv(F99_316, <<"1">>, F100_000, <<"1">>), Lv(F99_316, <<"2">>, F100_000, <<"2">>),
       Lv(F99_31p, <<"3">>, F100_000, <<"3">>), Lv(F99_31p, <<"4">>, F100_000, <<"4">>),
       Lv(F99_31p, <<"5">>, F100_000, <<"5">>) >>

\* five levels with a wide best spread, one bid price and two offer prices
LevelsWide ==
    << Lv(F99_31p, <<"1">>, F100_002, <<"1">>), Lv(F99_31p, <<"2">>, F100_002, <<"2">>),
       Lv(F99_31p, <<"3">>, F100_002, <<"3">>), Lv(F99_31p, <<"4">>, F100_000, <<"4">>),
       Lv(F99_31p, <<"5">>, F100_000, <<"5">>) >>

\* the offer price of the second level does not parse
LevelsMalformed ==
    << Lv(F99_316, <<"1">>, F100_000, <<"1">>), Lv(F99_316, <<"2">>, F99_162p, <<"2">>),
       Lv(F99_31p, <<"3">>, F100_000, <<"3">>), Lv(F99_31p, <<"4">>, F100_000, <<"4">>),
       Lv(F99_31p, <<"5">>, F100_000, <<"5">>) >>

\* five levels at one bid price and one offer price
LevelsFlat ==
    << Lv(F99_316, <<"1">>, F100_000, <<"1">>), Lv(F99_316, <<"2">>, F100_000, <<"2">>),
       Lv(F99_316, <<"3">>, F100_000, <<"3">>), Lv(F99_316, <<"4">>, F100_000, <<"4">>),
       Lv(F99_316, <<"5">>, F100_000, <<"5">>) >>

\* the second product is quoted flat only
MarketLines ==
    { l \in [cusip : ProductTable, levels : {LevelsTight, LevelsWide, LevelsFlat}] :
        (l.cusip = "91282CBL4") <=> (l.levels = LevelsFlat) }
    \cup [cusip : {UnknownCusip}, levels : {LevelsTight}]
    \cup [cusip : {"91282CAV3"}, levels : {LevelsMalformed}]

\* "Algo" + 11 random characters, "AlgoParent" + 5 random characters
RandomIds == [orderId : {"AlgoAAAAAAAAAAA", "AlgoBBBBBBBBBBB"}, parentOrderId : {"AlgoParentAAAAA"}]

\* buys of 3 and sells of 1, so that sums tell the two sides apart; trade T1
\* is booked to TRSY1 and trade T2 to TRSY2
TradeLines ==
    { l \in [cusip : ProductTable, tradeId : {"T1", "T2"}, price : {F100_000},
             book : {"TRSY1", "TRSY2"}, quantity : {<<"1">>, <<"3">>}, side : {"BUY", "SELL"}] :
        /\ (l.side = "BUY") <=> (l.quantity = <<"3">>)
        /\ (l.tradeId = "T1") <=> (l.book = "TRSY1")
        /\ l.cusip = "91282CBL4" => (l.tradeId = "T1" /\ l.side = "BUY") }
    \cup [cusip : {UnknownCusip}, tradeId : {"T1"}, price : {F100_000},
          book : {"TRSY1"}, quantity : {<<"1">>}, side : {"BUY"}]
    \cup [cusip : {"91282CAV3"}, tradeId : {"T1"}, price : {F99_162p},
          book : {"TRSY1"}, quantity : {<<"1">>}, side : {"BUY"}]

InquiryIds == {"INQ1", "INQ2"}

InquiryLines ==
    { l \in [inquiryId : InquiryIds, cusip : {"91282CAV3"}, side : {"BUY"}, quantity : {<<"1">>},
             price : {F100_000}, state : InquiryStates] :
        l.inquiryId = "INQ2" => l.state = "RECEIVED" }
    \cup [inquiryId : {"INQ1"}, cusip : {UnknownCusip}, side : {"BUY"}, quantity : {<<"1">>},
          price : {F100_000}, state : {"RECEIVED"}]
    \cup [inquiryId : {"INQ1"}, cusip : {"91282CAV3"}, side : {"BUY"}, quantity : {<<"q">>},
          price : {F100_000}, state : {"RECEIVED"}]

----------------------------------------------------------------------------
(* Top-level calls *)

\* the order in which ProcessDataFlows drives the connectors
NextPhase == ("prices" :> "marketdata") @@ ("marketdata" :> "trades")
             @@ ("trades" :> "inquiries") @@ ("inquiries" :> "done")

\* start of a top-level call
Begin(op, arg) == [St EXCEPT !.calls = @ + 1, !.lastCall = [op |-> op, arg |-> arg]]

\* nothing in main or in the connectors catches: an exception that leaves
\* Subscribe, or a fault, ends the process
EndRecord(s) == Commit(IF s.lastResult = "ok" THEN s ELSE [s EXCEPT !.pc = "aborted"])

\* a public method called from outside: an exception is surfaced to that caller
EndCall(s) == Commit(IF s.lastResult = "crash" THEN [s EXCEPT !.pc = "aborted"] ELSE s)

PricingRecord ==
    /\ pc = "prices" /\ calls < MaxCalls
    /\ \E line \in PriceLines, elapsed \in BOOLEAN, ub \in {"publish", "fault"} :
          EndRecord(PricingConnector_Subscribe(Begin("PricingRecord", line), line, elapsed, ub))

MarketDataRecord ==
    /\ pc = "marketdata" /\ calls < MaxCalls
    /\ \E line \in MarketLines, ids \in RandomIds :
          LET b == Begin("MarketDataRecord", line)
              p == ParseOrderBook(b, line)
          IN  IF p.lastResult # "ok" THEN EndRecord(p)
              ELSE \E aggregated \in AggregateDepth(p.orderBookMap[line.cusip]) :
                      EndRecord(MarketDataConnector_Subscribe(b, line, aggregated, ids))

TradeRecord ==
    /\ pc = "trades" /\ calls < MaxCalls
    /\ \E line \in TradeLines :
          EndRecord(TradeBookingConnector_Subscribe(Begin("TradeRecord", line), line))

InquiryRecord ==
    /\ pc = "inquiries" /\ calls < MaxCalls
    /\ \E line \in InquiryLines :
          EndRecord(InquiryConnector_Subscribe(Begin("InquiryRecord", line), line))

\* getline fails: Subscribe returns and ProcessDataFlows moves on; the input
\* files end while calls remain within the bound
EndOfFile ==
    /\ pc \in DOMAIN NextPhase /\ calls < MaxCalls
    /\ pc' = NextPhase[pc]
    /\ UNCHANGED <<calls, lastCall, lastResult, log, priceData, algoStreamData, streamCount,
                   priceStreamData, orderBookMap, algoExecutionData, algoCount,
                   executionOrderData, tradeData, bookCount, positionData, pv01Data,
                   hisData, inquiryData, ubRead,
                   listeners>>

SendQuote ==
    /\ pc = "done" /\ calls < MaxCalls
    /\ \E inquiryId \in InquiryIds, ub \in {"intact", "fault"} :
          EndCall(InquiryService_SendQuote(Begin("SendQuote", inquiryId), inquiryId, 25602, ub))

RejectInquiry ==
    /\ pc = "done" /\ calls < MaxCalls
    /\ \E inquiryId \in InquiryIds :
          EndCall(InquiryService_RejectInquiry(Begin("RejectInquiry", inquiryId), inquiryId))

HistoricalTypes == {"POSITION", "RISK", "EXECUTION", "STREAMING", "INQUIRY"}

\* the find-or-throw body shared by the GetData of the map-backed services
FindOrThrow(s, store, key) ==
    [s EXCEPT !.lastResult = IF Has(store, key) THEN "ok" ELSE "NotFound"]

PricingService_GetData(s, key) == FindOrThrow(s, s.priceData, key)
AlgoStreamingService_GetData(s, key) == FindOrThrow(s, s.algoStreamData, key)
StreamingService_GetData(s, key) == FindOrThrow(s, s.priceStreamData, key)
AlgoExecutionService_GetData(s, key) == FindOrThrow(s, s.algoExecutionData, key)
ExecutionService_GetData(s, key) == FindOrThrow(s, s.executionOrderData, key)
TradeBookingService_GetData(s, key) == FindOrThrow(s, s.tradeData, key)
PositionService_GetData(s, key) == FindOrThrow(s, s.positionData, key)
RiskService_GetData(s, key) == FindOrThrow(s, s.pv01Data, key)
HistoricalDataService_GetData(s, type, key) == FindOrThrow(s, s.hisData[type], key)
\* BaseService::GetData as inherited by GUIService, whose dataMap nothing fills
GUIService_GetData(s, key) == FindOrThrow(s, EmptyMap, key)

Services == {"PricingService", "AlgoStreamingService", "StreamingService", "MarketDataService",
             "AlgoExecutionService", "ExecutionService", "TradeBookingService", "PositionService",
             "RiskService", "InquiryService", "GUIService"} \cup HistoricalTypes

\* the keyed store of a service in state s
StoreOf(s, svc) ==
    CASE svc = "PricingService" -> s.priceData
      [] svc = "AlgoStreamingService" -> s.algoStreamData
      [] svc = "StreamingService" -> s.priceStreamData
      [] svc = "MarketDataService" -> s.orderBookMap
      [] svc = "AlgoExecutionService" -> s.algoExecutionData
      [] svc = "ExecutionService" -> s.executionOrderData
      [] svc = "TradeBookingService" -> s.tradeData
      [] svc = "PositionService" -> s.positionData
      [] svc = "RiskService" -> s.pv01Data
      [] svc = "InquiryService" -> s.inquiryData
      [] svc = "GUIService" -> EmptyMap
      [] OTHER -> s.hisData[svc]

ServiceGetData(s, svc, key) ==
    CASE svc = "PricingService" -> PricingService_GetData(s, key)
      [] svc = "AlgoStreamingService" -> AlgoStreamingService_GetData(s, key)
      [] svc = "StreamingService" -> StreamingService_GetData(s, key)
      [] svc = "MarketDataService" -> MarketDataService_GetData(s, key)
      [] svc = "AlgoExecutionService" -> AlgoExecutionService_GetData(s, key)
      [] svc = "ExecutionService" -> ExecutionService_GetData(s, key)
      [] svc = "TradeBookingService" -> TradeBookingService_GetData(s, key)
      [] svc = "PositionService" -> PositionService_GetData(s, key)
      [] svc = "RiskService" -> RiskService_GetData(s, key)
      [] svc = "InquiryService" -> InquiryService_GetData(s, key)
      [] svc = "GUIService" -> GUIService_GetData(s, key)
      [] OTHER -> HistoricalDataService_GetData(s, svc, key)

\* keys a caller asks for: product ids, a trade id, an inquiry id, an order id
GetDataKeys == {"91282CAV3", UnknownCusip, "T1", "INQ1", "AlgoAAAAAAAAAAA"}

GetDataCall(svc, key) ==
    /\ pc = "done" /\ calls < MaxCalls
    /\ EndCall(ServiceGetData(Begin("GetData", "none"), svc, key))

\* the keys tried on a service: one of the kind its store is keyed by, and
\* one that no store holds
KeysFor(svc) ==
    CASE svc = "TradeBookingService" -> {"T1", UnknownCusip}
      [] svc \in {"InquiryService", "INQUIRY"} -> {"INQ1", UnknownCusip}
      [] svc \in {"ExecutionService", "EXECUTION"} -> {"AlgoAAAAAAAAAAA", UnknownCusip}
      [] OTHER -> {"91282CAV3", UnknownCusip}

GetData == \E svc \in Services : \E key \in KeysFor(svc) : GetDataCall(svc, key)

Init ==
    /\ pc = "prices"
    /\ calls = 0
    /\ lastCall = [op |-> "none", arg |-> "none"]
    /\ lastResult = "ok"
    /\ log = <<>>
    /\ priceData = EmptyMap
    /\ algoStreamData = EmptyMap
    /\ streamCount = 0
    /\ priceStreamData = EmptyMap
    /\ orderBookMap = EmptyMap
    /\ algoExecutionData = EmptyMap
    /\ algoCount = 0
    /\ executionOrderData = EmptyMap
    /\ tradeData = EmptyMap
    /\ bookCount = 0
    /\ positionData = EmptyMap
    /\ pv01Data = EmptyMap
    /\ hisData = [t \in HistoricalTypes |-> EmptyMap]
    /\ inquiryData = EmptyMap
    /\ ubRead = FALSE
    /\ listeners = ListenersOf

Next ==
    \/ PricingRecord
    \/ MarketDataRecord
    \/ TradeRecord
    \/ InquiryRecord
    \/ EndOfFile
    \/ SendQuote
    \/ RejectInquiry
    \/ GetData

Spec == Init /\ [][Next]_vars

----------------------------------------------------------------------------
(* Properties *)

\* the events of the log that satisfy Test, in order
Events(Test(_)) == SelectSeq(log, Test)

IsTradeDelivery(e) == e.svc = "TradeBookingService" /\ e.op = "notify"

\* the trades PositionService::AddTrade has been called with, oldest first
DeliveredTrades == Events(IsTradeDelivery)

Books == {"TRSY1", "TRSY2", "TRSY3"}

\* sum of +qty over the BUY and -qty over the SELL trades of the events seq
RECURSIVE SignedSum(_)
SignedSum(seq) ==
    IF seq = <<>> THEN 0
    ELSE (IF Head(seq).val.side = "BUY" THEN Head(seq).val.quantity
          ELSE 0 - Head(seq).val.quantity)
         + SignedSum(Tail(seq))

\* C1: for every product with a PV01 entry, the stored PV01 quantity equals
\* the aggregate position (sum over all books) PositionService stores for it.
C1_PV01EqualsAggregate ==
    \A p \in DOMAIN pv01Data :
        /\ Has(positionData, p)
        /\ pv01Data[p].quantity = GetAggregatePosition(positionData[p])

\* C2: after any sequence of trades the position of each book is the sum of
\* +qty over the BUY trades and -qty over the SELL trades booked to it, and
\* the aggregate position is the sum of the signed quantities of all trades
\* of the product.
C2_PositionLinearity ==
    \A p \in ProductTable :
        LET OfProduct(e) == e.val.product = p
            traded == SelectSeq(DeliveredTrades, OfProduct) # <<>>
        IN  /\ Has(positionData, p) <=> traded
            /\ Has(positionData, p) =>
                  /\ \A b \in Books :
                        LET InBook(e) == e.val.product = p /\ e.val.book = b
                        IN  GetPosition(positionData[p], b) = SignedSum(SelectSeq(DeliveredTrades, InBook))
                  /\ DOMAIN positionData[p].bookPositionData \subseteq Books
                  /\ GetAggregatePosition(positionData[p]) = SignedSum(SelectSeq(DeliveredTrades, OfProduct))

\* C2 witness: a product bought in one book and sold in another
C2_Witness ==
    \E p \in DOMAIN positionData : \E b1, b2 \in Books :
        /\ GetPosition(positionData[p], b1) > 0
        /\ GetPosition(positionData[p], b2) < 0
        /\ GetAggregatePosition(positionData[p]) = 2

\* the last top-level call was an inquiry record that reached OnMessage
InquiryFed == lastCall.op = "InquiryRecord" /\ lastResult = "ok"

IsInquiryNotifyOfLastCall(e) == e.rec = calls /\ e.svc = "InquiryService" /\ e.op = "notify"

IsOnMessageOfLastCall(e) == e.rec = calls /\ e.svc = "InquiryService" /\ e.op = "OnMessage"

\* C3: for an inquiry fed to OnMessage in state RECEIVED every registered
\* listener receives exactly one ProcessAdd call, and that call carries DONE.
C3_ExactlyOneProcessAdd ==
    (InquiryFed /\ lastCall.arg.state = "RECEIVED") =>
        LET notes == Events(IsInquiryNotifyOfLastCall)
        IN  /\ Len(notes) = Len(inquiryService_listeners)
            /\ \A i \in DOMAIN notes : notes[i].val.state = "DONE"

\* C4: an inquiry fed to OnMessage in state RECEIVED goes RECEIVED -> QUOTED
\* -> DONE within that one top-level call, OnMessage is entered twice (depth 1,
\* then depth 2 from the connector's Publish), the call returns, and the
\* inquiry is then absent from the store.
C4_ReceivedReachesDone ==
    (lastCall.op = "InquiryRecord" /\ lastResult # "UnknownProduct" /\ lastResult # "MalformedInput"
       /\ lastCall.arg.state = "RECEIVED") =>
        LET entries == Events(IsOnMessageOfLastCall)
            notes   == Events(IsInquiryNotifyOfLastCall)
        IN  /\ lastResult = "ok" /\ pc # "aborted"
            /\ Len(entries) = 2
            /\ entries[1].val = [depth |-> 1, state |-> "RECEIVED"]
            /\ entries[2].val = [depth |-> 2, state |-> "QUOTED"]
            /\ notes # <<>>
            /\ \A i \in DOMAIN notes : notes[i].val.state = "DONE"
            /\ ~Has(inquiryData, lastCall.arg.inquiryId)

\* C4 witness: a RECEIVED inquiry was processed while another inquiry with
\* the same id was in the store
C4_Witness ==
    /\ InquiryFed /\ lastCall.arg.state = "RECEIVED"
    /\ \E i \in DOMAIN log : /\ log[i].rec < calls /\ log[i].svc = "InquiryService"
                             /\ log[i].op = "store" /\ log[i].key = lastCall.arg.inquiryId
                             /\ log[i].val.state = "REJECTED"

TerminalStates == {"DONE", "REJECTED"}

\* the events the step appends to the log
NewEvents == SubSeq(log', Len(log) + 1, Len(log'))

\* C5: DONE and REJECTED are terminal: SendQuote or RejectInquiry on a stored
\* inquiry in one of these states, and OnMessage with an inquiry in one of
\* them, leave the state as it is (every notification carries it, and the
\* stored entry keeps it).
C5_TerminalStates ==
    [][ /\ ( /\ calls' = calls + 1
             /\ lastCall'.op \in {"SendQuote", "RejectInquiry"}
             /\ Has(inquiryData, lastCall'.arg)
             /\ inquiryData[lastCall'.arg].state \in TerminalStates )
           => LET id  == lastCall'.arg
                  old == inquiryData[id].state
              IN  /\ Has(inquiryData', id) => inquiryData'[id].state = old
                  /\ \A i \in DOMAIN NewEvents :
                        (NewEvents[i].svc = "InquiryService" /\ NewEvents[i].op = "notify")
                            => NewEvents[i].val.state = old
        /\ ( /\ calls' = calls + 1
             /\ lastCall'.op = "InquiryRecord" /\ lastResult' = "ok"
             /\ lastCall'.arg.state \in TerminalStates )
           => \A i \in DOMAIN NewEvents :
                 (NewEvents[i].svc = "InquiryService" /\ NewEvents[i].op = "notify")
                     => NewEvents[i].val.state = lastCall'.arg.state
      ]_vars

\* The same program driven with part of its inputs only: the other input
\* files are empty and the public methods are not called.

\* only the prices file holds records
PricingNext == PricingRecord \/ EndOfFile

PricingSpec == Init /\ [][PricingNext]_vars

\* only the market-data file and the trades file hold records
TradingNext == MarketDataRecord \/ TradeRecord \/ EndOfFile

TradingSpec == Init /\ [][TradingNext]_vars

\* only the inquiries file holds records; quotes and rejections follow
InquiryNext == InquiryRecord \/ EndOfFile \/ SendQuote \/ RejectInquiry

InquirySpec == Init /\ [][InquiryNext]_vars

\* the keyed stores of all services
stores == <<priceData, algoStreamData, priceStreamData, orderBookMap, algoExecutionData,
            executionOrderData, tradeData, positionData, pv01Data, hisData, inquiryData>>

\* C6: every store mutation, notification and output caused by a record
\* happens during that record's own top-level call and is appended after
\* everything earlier records caused; effects of different records never
\* interleave.
C6_RecordsDoNotInterleave ==
    [][ /\ Len(log') >= Len(log)
        /\ SubSeq(log', 1, Len(log)) = log
        /\ \A i \in DOMAIN NewEvents : NewEvents[i].rec = calls'
        /\ (NewEvents # <<>> \/ stores' # stores) => calls' = calls + 1
        /\ \A i \in 1..(Len(log') - 1) : log'[i].rec <= log'[i + 1].rec
      ]_vars

\* C6 witness: two records read one after the other by the trade connector
\* have both left effects, down to the persisted risk records
C6_Witness ==
    \E i, j \in DOMAIN log :
        /\ log[i].rec + 1 = log[j].rec
        /\ log[i].op = "persist" /\ log[i].svc = "RISK"
        /\ log[j].op = "store" /\ log[j].svc = "TradeBookingService"

\* C7: a record with an unknown CUSIP or a malformed field is abandoned alone:
\* the connector goes on with the next record and the later inputs are driven.
C7_ConnectorContinues ==
    lastResult \in {"MalformedInput", "UnknownProduct"} => pc # "aborted"

\* C8: GetData with a key that is not in the service's store fails with
\* NotFound and leaves every store unchanged, for every service.
C8_GetDataNotFound ==
    [][ \A svc \in Services, key \in GetDataKeys :
          (GetDataCall(svc, key) /\ ~Has(StoreOf(St, svc), key))
              => (lastResult' = "NotFound" /\ stores' = stores)
      ]_vars

OnePerPrice(stack) == \A i, j \in DOMAIN stack : stack[i].price = stack[j].price => i = j

Tagged(stack, side) == \A i \in DOMAIN stack : stack[i].side = side

\* sum over the levels of a market-data line of the sizes quoted at price on
\* the bid side (isBid) or the offer side
RECURSIVE QuotedAt(_, _, _)
QuotedAt(levels, price, isBid) ==
    IF levels = <<>> THEN 0
    ELSE LET lv == Head(levels)
             px == IF isBid THEN Frac2Price(lv.bid) ELSE Frac2Price(lv.ask)
             sz == IF isBid THEN ParseNumber(lv.bidSize) ELSE ParseNumber(lv.askSize)
         IN  (IF px.ok /\ sz.ok /\ px.val = price THEN sz.val ELSE 0)
             + QuotedAt(Tail(levels), price, isBid)

StackOf(books, p, isBid) ==
    IF Has(books, p) THEN (IF isBid THEN books[p].bidStack ELSE books[p].offerStack) ELSE <<>>

\* the book is aggregated: one order per price, sides tagged
AggregatedBook(book) ==
    /\ OnePerPrice(book.bidStack) /\ OnePerPrice(book.offerStack)
    /\ Tagged(book.bidStack, "BID") /\ Tagged(book.offerStack, "OFFER")

\* C9: whenever MarketDataService notifies its listeners, and after every
\* market-data record, each side of the product's stored book holds at most
\* one order per price, tagged with its side, whose quantity is the sum of the
\* quantities of all orders at that price that were aggregated into it.
C9_BookAggregated ==
    [][ ( /\ calls' = calls + 1
          /\ lastCall'.op = "MarketDataRecord"
          /\ Has(orderBookMap', lastCall'.arg.cusip) )
        => LET p    == lastCall'.arg.cusip
               book == orderBookMap'[p]
           IN  /\ AggregatedBook(book)
               /\ \A isBid \in BOOLEAN :
                    LET new == StackOf(orderBookMap', p, isBid)
                        old == StackOf(orderBookMap, p, isBid)
                    IN  \A i \in DOMAIN new :
                           new[i].quantity = PriceQuantity(old, new[i].price)
                                             + QuotedAt(lastCall'.arg.levels, new[i].price, isBid)
               /\ \A i \in DOMAIN NewEvents :
                     (NewEvents[i].svc = "MarketDataService" /\ NewEvents[i].op = "notify")
                         => AggregatedBook(NewEvents[i].val)
      ]_vars

IsAlgoExecution(e) == e.svc = "AlgoExecutionService" /\ e.op = "store"

SetMax(S) == CHOOSE x \in S : \A y \in S : y <= x

SetMin(S) == CHOOSE x \in S : \A y \in S : x <= y

\* C10: with best bid (pb, qb), best offer (po, qo) and c the number of order
\* books AlgoExecutionService processed before, over all products: a spread
\* of at most 1/128 gives BID at po for qb when c is even and OFFER at pb for
\* qo when c is odd, a wider spread gives BID at pb for qb; always visible =
\* quantity, hidden = 0, MARKET, not a child order, market BROKERTEC; and c
\* grows by exactly one per event.
C10_SpreadGate ==
    [][ ( /\ calls' = calls + 1
          /\ lastCall'.op = "MarketDataRecord"
          /\ lastResult' = "ok" )
        => LET p    == lastCall'.arg.cusip
               book == orderBookMap'[p]
               c    == Len(Events(IsAlgoExecution))
               pb   == SetMax(StackPrices(book.bidStack))
               po   == SetMin(StackPrices(book.offerStack))
               qb   == PriceQuantity(book.bidStack, pb)
               qo   == PriceQuantity(book.offerStack, po)
               a    == algoExecutionData'[p]
               o    == a.executionOrder
               qty  == o.visibleQuantity
           IN  /\ algoCount = c /\ algoCount' = c + 1
               /\ a.market = "BROKERTEC"
               /\ o.product = p /\ o.orderType = "MARKET" /\ o.isChildOrder = FALSE
               /\ o.hiddenQuantity = 0
               /\ (po - pb <= 2 /\ c % 2 = 0) => (o.side = "BID" /\ o.price = po /\ qty = qb)
               /\ (po - pb <= 2 /\ c % 2 = 1) => (o.side = "OFFER" /\ o.price = pb /\ qty = qo)
               /\ (po - pb > 2) => (o.side = "BID" /\ o.price = pb /\ qty = qb)
      ]_vars

\* C10 witness: the second order book event found a tight spread and sold,
\* and an earlier event found a wide one
C10_Witness ==
    /\ lastCall.op = "MarketDataRecord" /\ lastResult = "ok" /\ algoCount = 2
    /\ algoExecutionData[lastCall.arg.cusip].executionOrder.side = "OFFER"
    /\ \E i \in DOMAIN log : /\ IsAlgoExecution(log[i]) /\ log[i].rec < calls
                             /\ log[i].val.executionOrder.price = 25596

IsAlgoStream(e) == e.svc = "AlgoStreamingService" /\ e.op = "store"

IsPriceReceived(e) == e.svc = "PricingService" /\ e.op = "store"

\* the price streams AlgoStreamingService has produced, oldest first
AlgoStreams == Events(IsAlgoStream)

\* C11: counting from 0 over all price streams AlgoStreamingService produced,
\* whatever the product, the k-th has visible quantity 1,000,000 for even k
\* and 2,000,000 for odd k on both orders and hidden quantity twice the
\* visible one; the counter advances by exactly one per price received.
C11_StreamAlternation ==
    /\ streamCount = Len(AlgoStreams)
    /\ Len(AlgoStreams) = Len(Events(IsPriceReceived))
    /\ \A k \in DOMAIN AlgoStreams :
          LET ps  == AlgoStreams[k].val.priceStream
              vis == IF (k - 1) % 2 = 0 THEN 1000000 ELSE 2000000
          IN  /\ ps.bidOrder.visibleQuantity = vis /\ ps.offerOrder.visibleQuantity = vis
              /\ ps.bidOrder.hiddenQuantity = 2 * vis /\ ps.offerOrder.hiddenQuantity = 2 * vis

\* C11 witness: three prices over two products, the second stream (k = 1)
\* for another product than the first and the third back at 1,000,000
C11_Witness ==
    /\ Len(AlgoStreams) = 3
    /\ AlgoStreams[1].key # AlgoStreams[2].key
    /\ AlgoStreams[2].val.priceStream.bidOrder.visibleQuantity = 2000000
    /\ AlgoStreams[3].val.priceStream.bidOrder.visibleQuantity = 1000000

\* an ExecutionOrder handed to TradeBookingServiceListener
IsOrderReceived(e) ==
    e.svc = "ExecutionService" /\ e.op = "notify" /\ e.to = "TradeBookingServiceListener"

\* positions in the log of the trades synthesised from an ExecutionOrder: the
\* trade delivery that directly follows the hand-over of the order
SynthesisedAt ==
    { i \in 2..Len(log) : IsOrderReceived(log[i - 1]) /\ IsTradeDelivery(log[i]) }

IsRiskStore(e) == e.svc = "RiskService" /\ e.op = "store"

IsPositionForRisk(e) ==
    e.svc = "PositionService" /\ e.op = "notify" /\ e.to = "RiskServiceListener"

\* C13: AddPosition(position) for product p inserts an entry with the
\* position's aggregate quantity when p has none, and otherwise adds that
\* aggregate to the stored quantity and keeps the per-unit pv01; the entries
\* of other products are unchanged.
C13_AddPositionAccumulates ==
    [][ /\ \A i \in DOMAIN NewEvents :
              IsRiskStore(NewEvents[i]) =>
                 LET p   == NewEvents[i].key
                     pos == NewEvents[i - 1].val
                     agg == SumOver(pos.bookPositionData, DOMAIN pos.bookPositionData)
                 IN  /\ i > 1 /\ IsPositionForRisk(NewEvents[i - 1]) /\ pos.product = p
                     /\ IF Has(pv01Data, p)
                        THEN /\ pv01Data'[p].quantity = pv01Data[p].quantity + agg
                             /\ pv01Data'[p].pv01 = pv01Data[p].pv01
                             /\ pv01Data'[p].product = p
                        ELSE pv01Data'[p] = [product |-> p, pv01 |-> QueryPV01[p], quantity |-> agg]
                     /\ DOMAIN pv01Data' = DOMAIN pv01Data \cup {p}
                     /\ \A q \in DOMAIN pv01Data \ {p} : pv01Data'[q] = pv01Data[q]
        /\ Len(SelectSeq(NewEvents, IsRiskStore)) <= 1
        /\ Len(SelectSeq(NewEvents, IsRiskStore)) = Len(SelectSeq(NewEvents, IsPositionForRisk))
        /\ SelectSeq(NewEvents, IsRiskStore) = <<>> => pv01Data' = pv01Data
      ]_vars

\* C13 witness: two products hold a PV01 entry and one of them has been
\* updated twice, so that its quantity is no longer the aggregate position
C13_Witness ==
    /\ Cardinality(DOMAIN pv01Data) = 2
    /\ \E p \in DOMAIN pv01Data :
          /\ Len(SelectSeq(log, LAMBDA e : IsRiskStore(e) /\ e.key = p)) = 2
          /\ pv01Data[p].quantity # GetAggregatePosition(positionData[p])

\* an AlgoExecution handed to ExecutionService
IsAlgoExecutionReceived(e) ==
    e.svc = "AlgoExecutionService" /\ e.op = "notify" /\ e.to = "ExecutionServiceListener"

\* positions in the log of the ExecutionService events of kind op caused by call r
ExecutionEventsAt(r, op) ==
    { i \in DOMAIN log : log[i].rec = r /\ log[i].svc = "ExecutionService" /\ log[i].op = op }

\* C14: for each AlgoExecution it receives, ExecutionService stores the
\* order under its orderId, then notifies all its listeners with it, and then
\* publishes it exactly once on its connector with the AlgoExecution's market.
C14_StoreNotifyPublish ==
    \A a \in DOMAIN log :
        IsAlgoExecutionReceived(log[a]) =>
           LET o  == log[a].val.executionOrder
               st == ExecutionEventsAt(log[a].rec, "store")
               nt == ExecutionEventsAt(log[a].rec, "notify")
               pb == ExecutionEventsAt(log[a].rec, "publish")
           IN  /\ Cardinality(st) = 1
               /\ \A i \in st : log[i].key = o.orderId /\ log[i].val = o
               /\ \A l \in {executionService_listeners[n] : n \in DOMAIN executionService_listeners} :
                     \E j \in nt : log[j].to = l /\ log[j].val = o
               /\ Cardinality(pb) = 1
               /\ \A k \in pb : log[k].val = [order |-> o, market |-> log[a].val.market]
               /\ \A i \in st, j \in nt : i < j
               /\ \A j \in nt, k \in pb : j < k

\* positions in the log of the ProcessAdd calls made by service svc
NotifiedAt(svc) == { i \in DOMAIN log : log[i].svc = svc /\ log[i].op = "notify" }

\* the ProcessAdd calls made by service svc, oldest first
NotifiedBy(svc) == SelectSeq(log, LAMBDA e : e.svc = svc /\ e.op = "notify")

\* C15: each time a service notifies its listeners, it invokes ProcessAdd on
\* them in the order in which they were registered with AddListener.
C15_RegistrationOrder ==
    \A svc \in DOMAIN ListenersOf :
        LET R == ListenersOf[svc]
            N == NotifiedBy(svc)
        IN  \A k \in DOMAIN N :
               \E n \in DOMAIN R :
                  /\ N[k].to = R[n]
                  /\ IF n > 1
                     THEN /\ k > 1 /\ N[k - 1].to = R[n - 1]
                          /\ N[k - 1].val = N[k].val /\ N[k - 1].rec = N[k].rec
                     ELSE k > 1 => N[k - 1].to = R[Len(R)]

\* C15 witness: ExecutionService and PositionService have each gone through
\* both of their listeners, and PricingService through both of its own
C15_Witness ==
    /\ \E i, j \in NotifiedAt("ExecutionService") :
          i < j /\ log[i].to = "TradeBookingServiceListener" /\ log[j].to = "HistoricalExecutionListener"
    /\ \E i, j \in NotifiedAt("PositionService") :
          i < j /\ log[i].to = "RiskServiceListener" /\ log[j].to = "HistoricalPositionListener"
    /\ \E i, j \in NotifiedAt("PricingService") :
          i < j /\ log[i].to = "AlgoStreamingServiceListener" /\ log[j].to = "GUIServiceListener"

----------------------------------------------------------------------------
(* OrderBook::BestBidOffer on arbitrary books *)

\* orders an OrderBook can be constructed with on one side
OrdersOf(side) == [price : {25596, 25598, 25600}, quantity : {1, 2}, side : {side}]

\* non-empty stacks of at most MaxStack orders, in any order, prices repeated or not
StacksOf(side) == UNION { [1..n -> OrdersOf(side)] : n \in 1..MaxStack }

\* a book constructed by OrderBook(product, bidStack, offerStack) is held
BookInit ==
    /\ pc = "done"
    /\ calls = 0
    /\ lastCall = [op |-> "none", arg |-> "none"]
    /\ lastResult = "ok"
    /\ log = <<>>
    /\ priceData = EmptyMap /\ algoStreamData = EmptyMap /\ priceStreamData = EmptyMap
    /\ streamCount = 0 /\ algoCount = 0 /\ bookCount = 0
    /\ algoExecutionData = EmptyMap /\ executionOrderData = EmptyMap /\ tradeData = EmptyMap
    /\ positionData = EmptyMap /\ pv01Data = EmptyMap /\ inquiryData = EmptyMap
    /\ hisData = [t \in HistoricalTypes |-> EmptyMap]
    /\ ubRead = FALSE
    /\ listeners = ListenersOf
    /\ \E bids \in StacksOf("BID"), offers \in StacksOf("OFFER") :
          orderBookMap = Put(EmptyMap, "91282CAV3",
                             [product |-> "91282CAV3", bidStack |-> bids, offerStack |-> offers])

\* a caller asks the held book for its best bid and offer
CallBestBidOffer ==
    /\ lastCall.op = "none"
    /\ lastCall' = [op |-> "BestBidOffer", arg |-> orderBookMap["91282CAV3"]]
    /\ lastResult' = BestBidOffer(orderBookMap["91282CAV3"])
    /\ UNCHANGED <<pc, calls, log, priceData, algoStreamData, streamCount, priceStreamData,
                   orderBookMap, algoExecutionData, algoCount, executionOrderData, tradeData,
                   bookCount, positionData, pv01Data, hisData, inquiryData, ubRead,
                   listeners>>

BestBidOfferSpec == BookInit /\ [][CallBestBidOffer]_vars

\* C16: on a book with non-empty stacks BestBidOffer returns an order of the
\* bid stack with the maximum bid price and an order of the offer stack with
\* the minimum offer price, each with its stored quantity, and leaves the
\* book as it was.
C16_BestBidOffer ==
    lastCall.op = "BestBidOffer" =>
       LET book == orderBookMap["91282CAV3"]
           r    == lastResult
       IN  /\ \E i \in DOMAIN book.bidStack : r.bidOrder = book.bidStack[i]
           /\ \E i \in DOMAIN book.offerStack : r.offerOrder = book.offerStack[i]
           /\ \A i \in DOMAIN book.bidStack : book.bidStack[i].price <= r.bidOrder.price
           /\ \A i \in DOMAIN book.offerStack : r.offerOrder.price <= book.offerStack[i].price
           /\ book = lastCall.arg

\* C16 witness: the best bid and the best offer are both the second order of
\* their stack
C16_Witness ==
    /\ lastCall.op = "BestBidOffer"
    /\ LET book == orderBookMap["91282CAV3"]
       IN  /\ Len(book.bidStack) = 2 /\ Len(book.offerStack) = 2
           /\ book.bidStack[1].price < book.bidStack[2].price
           /\ book.offerStack[2].price < book.offerStack[1].price
           /\ lastResult.bidOrder = book.bidStack[2]
           /\ lastResult.offerOrder = book.offerStack[2]

\* the inquiry is stored under id in state st and GetData(id) finds it
StoredAs(id, st) ==
    /\ Has(inquiryData', id) /\ inquiryData'[id].inquiryId = id /\ inquiryData'[id].state = st
    /\ InquiryService_GetData(St', id).lastResult = "ok"

\* C17: after OnMessage has processed an inquiry in state REJECTED or
\* CUSTOMER_REJECTED (also through RejectInquiry) the inquiry is stored with
\* that state and GetData(id) returns it; after OnMessage has processed an
\* inquiry that is or becomes DONE the store holds no entry for its id.
C17_RejectedKeptDoneEvicted ==
    [][ calls' = calls + 1 =>
          /\ (lastCall'.op = "InquiryRecord" /\ lastResult' = "ok") =>
                LET id == lastCall'.arg.inquiryId
                    st == StringToState(lastCall'.arg.state)
                IN  IF st \in {"REJECTED", "CUSTOMER_REJECTED"}
                    THEN StoredAs(id, st)
                    ELSE ~Has(inquiryData', id)
          /\ (lastCall'.op = "RejectInquiry" /\ lastResult' = "ok") =>
                StoredAs(lastCall'.arg, "REJECTED")
          /\ (lastCall'.op = "SendQuote" /\ lastResult' # "NotFound") =>
                ~Has(inquiryData', lastCall'.arg)
      ]_vars

\* C17 witness: an inquiry read as CUSTOMER_REJECTED has been rejected through
\* RejectInquiry and is stored as REJECTED, while another one went to DONE
\* and is gone
C17_Witness ==
    /\ lastCall.op = "RejectInquiry" /\ lastResult = "ok"
    /\ Has(inquiryData, lastCall.arg) /\ inquiryData[lastCall.arg].state = "REJECTED"
    /\ \E i \in DOMAIN log :
          /\ log[i].svc = "InquiryService" /\ log[i].op = "store"
          /\ log[i].key = lastCall.arg /\ log[i].val.state = "CUSTOMER_REJECTED"
    /\ \E i \in DOMAIN log :
          /\ log[i].svc = "InquiryService" /\ log[i].op = "erase"
          /\ log[i].key # lastCall.arg /\ ~Has(inquiryData, log[i].key)

\* positions before i of the changes InquiryService made to the entry of id
StoreChangesBefore(id, i) ==
    { j \in 1..(i - 1) : /\ log[j].svc = "InquiryService" /\ log[j].key = id
                         /\ log[j].op \in {"store", "erase"} }

\* the inquiry of event i went through case QUOTED of OnMessage in the same call
WentThroughQuoted(i) ==
    \E j \in 1..(i - 1) :
        /\ log[j].rec = log[i].rec /\ log[j].svc = "InquiryService" /\ log[j].op = "OnMessage"
        /\ log[j].key = log[i].key /\ log[j].val.state = "QUOTED"

\* C18: an inquiry that reaches DONE is stored, then the listeners are
\* notified, and only then is it removed: whenever ProcessAdd is invoked with
\* a DONE inquiry that went through the QUOTED transition the inquiry is
\* still in the store, and no listener is notified of it after its eviction.
C18_NotifiedBeforeEviction ==
    \A i \in DOMAIN log :
        ( /\ log[i].svc = "InquiryService" /\ log[i].op = "notify"
          /\ log[i].val.state = "DONE" /\ WentThroughQuoted(i) )
        => LET ch == StoreChangesBefore(log[i].key, i)
           IN  /\ ch # {}
               /\ log[CHOOSE j \in ch : \A m \in ch : m <= j].op = "store"

\* the services whose store is keyed by product id
ProductKeyed == {"PricingService", "AlgoStreamingService", "StreamingService", "AlgoExecutionService"}

\* positions in the log of the values service svc produced for product p
ProducedAt(svc, p) ==
    { i \in DOMAIN log : log[i].svc = svc /\ log[i].op = "store" /\ log[i].key = p }

\* C19: in the services keyed by product id, GetData(p) returns the value
\* produced by the most recent event for p, the store holds exactly one entry
\* for p, and every other product keeps the value of its own latest event.
C19_LatestWins ==
    /\ \A svc \in ProductKeyed :
          LET st == StoreOf(St, svc)
          IN  /\ DOMAIN st = { p \in ProductTable : ProducedAt(svc, p) # {} }
              /\ \A p \in DOMAIN st :
                    LET at == ProducedAt(svc, p)
                        latest == CHOOSE i \in at : \A j \in at : j <= i
                    IN  /\ st[p] = log[latest].val
                        /\ ServiceGetData(St, svc, p).lastResult = "ok"
    /\ (lastCall.op = "PricingRecord" /\ lastResult \in {"ok", "crash"}) =>
          LET l == lastCall.arg
          IN  priceData[l.cusip] =
                 [product |-> l.cusip,
                  mid |-> Frac2Price(l.bid).val + Frac2Price(l.ask).val,
                  bidOfferSpread |-> 2 * (Frac2Price(l.ask).val - Frac2Price(l.bid).val)]

\* C19 witness: one product was priced twice at different bids after another
\* product was priced, and the streams followed
C19_Witness ==
    /\ lastCall.op = "PricingRecord" /\ lastResult = "ok"
    /\ DOMAIN priceData = ProductTable /\ DOMAIN priceStreamData = ProductTable
    /\ LET at == ProducedAt("PricingService", lastCall.arg.cusip)
       IN  /\ Cardinality(at) = 2
           /\ \E i, j \in at : log[i].val # log[j].val
           /\ \E k \in ProducedAt("PricingService", CHOOSE q \in ProductTable : q # lastCall.arg.cusip) :
                 \A i \in at : k < i

\* C20: a record rejected as MalformedInput or UnknownProduct is dropped
\* without effect: every store, every counter and every output is as it was
\* before the record was read.
C20_RejectedRecordHasNoEffect ==
    [][ ( /\ calls' = calls + 1
          /\ lastCall'.op \in {"PricingRecord", "MarketDataRecord", "TradeRecord", "InquiryRecord"}
          /\ lastResult' \in {"MalformedInput", "UnknownProduct"} )
        => /\ stores' = stores
           /\ <<streamCount, algoCount, bookCount>>' = <<streamCount, algoCount, bookCount>>
           /\ log' = log
      ]_vars

----------------------------------------------------------------------------
(* OrderBook::BestBidOffer on a book with an empty side *)

\* stacks of at most MaxStack orders, the empty stack included
StacksOrEmpty(side) == UNION { [1..n -> OrdersOf(side)] : n \in 0..MaxStack }

\* a book with an empty bid stack or an empty offer stack is held, as
\* MarketDataService::GetData leaves one for a product it has not seen
EmptySideInit ==
    /\ pc = "done"
    /\ calls = 0
    /\ lastCall = [op |-> "none", arg |-> "none"]
    /\ lastResult = "ok"
    /\ log = <<>>
    /\ priceData = EmptyMap /\ algoStreamData = EmptyMap /\ priceStreamData = EmptyMap
    /\ streamCount = 0 /\ algoCount = 0 /\ bookCount = 0
    /\ algoExecutionData = EmptyMap /\ executionOrderData = EmptyMap /\ tradeData = EmptyMap
    /\ positionData = EmptyMap /\ pv01Data = EmptyMap /\ inquiryData = EmptyMap
    /\ hisData = [t \in HistoricalTypes |-> EmptyMap]
    /\ ubRead = FALSE
    /\ listeners = ListenersOf
    /\ \E bids \in StacksOrEmpty("BID"), offers \in StacksOrEmpty("OFFER") :
          /\ bids = <<>> \/ offers = <<>>
          /\ orderBookMap = Put(EmptyMap, "91282CAV3",
                                [product |-> "91282CAV3", bidStack |-> bids, offerStack |-> offers])

\* what reading through an end iterator can yield when it does not fault
IndeterminateOrders == [price : {0, 25600}, quantity : {0, 1}, side : {"BID", "OFFER"}]

\* OrderBook::BestBidOffer without its precondition: max_element and
\* min_element return end() on an empty stack, and *end() is undefined: the
\* call faults or builds the BidOffer from whatever the read yields. No
\* emptiness test and no throw precede the dereference.
BestBidOffer_Unchecked(orderBook, fault, junk) ==
    IF orderBook.bidStack # <<>> /\ orderBook.offerStack # <<>>
    THEN [state |-> "returned", value |-> BestBidOffer(orderBook)]
    ELSE IF fault THEN [state |-> "fault"]
    ELSE [state |-> "returned",
          value |-> [bidOrder   |-> IF orderBook.bidStack = <<>> THEN junk
                                    ELSE orderBook.bidStack[MaxPriceIndex(orderBook.bidStack, 1, 1)],
                     offerOrder |-> IF orderBook.offerStack = <<>> THEN junk
                                    ELSE orderBook.offerStack[MinPriceIndex(orderBook.offerStack, 1, 1)]]]

\* a caller asks the held book for its best bid and offer
CallBestBidOfferOnEmptySide ==
    /\ lastCall.op = "none"
    /\ lastCall' = [op |-> "BestBidOffer", arg |-> orderBookMap["91282CAV3"]]
    /\ \E fault \in BOOLEAN, junk \in IndeterminateOrders :
          lastResult' = BestBidOffer_Unchecked(orderBookMap["91282CAV3"], fault, junk)
    /\ UNCHANGED <<pc, calls, log, priceData, algoStreamData, streamCount, priceStreamData,
                   orderBookMap, algoExecutionData, algoCount, executionOrderData, tradeData,
                   bookCount, positionData, pv01Data, hisData, inquiryData, ubRead,
                   listeners>>

EmptySideSpec == EmptySideInit /\ [][CallBestBidOfferOnEmptySide]_vars

\* C21: BestBidOffer on a book whose bid stack or offer stack is empty ends
\* in the fatal InvariantViolation error state and returns no BidOffer.
C21_EmptySideIsInvariantViolation ==
    ( /\ lastCall.op = "BestBidOffer"
      /\ lastCall.arg.bidStack = <<>> \/ lastCall.arg.offerStack = <<>> )
    => lastResult.state = "InvariantViolation"

----------------------------------------------------------------------------
(* TradeBookingServiceListener::ProcessAdd on arbitrary execution orders *)

\* execution orders a caller can hand to the listener, hidden quantity included
ExecutionOrders ==
    [product : {"91282CAV3", "91282CBL4"}, side : {"BID", "OFFER"},
     orderId : {"AlgoAAAAAAAAAAA"}, orderType : {"MARKET"}, price : {25598},
     visibleQuantity : {1, 2}, hiddenQuantity : {0, 3},
     parentOrderId : {"AlgoParentAAAAA"}, isChildOrder : {FALSE}]

\* ExecutionService hands an order to its listener TradeBookingServiceListener
OrderDelivered ==
    /\ calls < MaxCalls
    /\ \E order \in ExecutionOrders :
          EndCall(ExecutionListener_ProcessAdd("TradeBookingServiceListener",
                                               Begin("OrderDelivered", order), order))

SynthesisSpec == Init /\ [][OrderDelivered]_vars

\* C22: the trade synthesised from an ExecutionOrder carries the order's id
\* as trade id, the order's product and price, the sum of the visible and the
\* hidden quantity, and side BUY for a BID order and SELL for an OFFER order;
\* each listener of TradeBookingService is then notified once, in
\* registration order, with that trade.
C22_SynthesisedTrade ==
    \A i \in 1..Len(log) :
       IsOrderReceived(log[i]) =>
          LET order == log[i].val
              n     == Len(tradeBookingService_listeners)
          IN  /\ i + n <= Len(log)
              /\ \A k \in 1..n :
                    LET e == log[i + k]
                    IN  /\ k = 1 \/ e.val = log[i + 1].val
                        /\ IsTradeDelivery(e) /\ e.rec = log[i].rec
                        /\ e.to = tradeBookingService_listeners[k]
                        /\ e.val.tradeId = order.orderId
                        /\ e.val.product = order.product
                        /\ e.val.price = order.price
                        /\ e.val.quantity = order.visibleQuantity + order.hiddenQuantity
                        /\ e.val.side = (IF order.side = "BID" THEN "BUY" ELSE "SELL")
              /\ Cardinality({ j \in 1..Len(log) : IsTradeDelivery(log[j]) /\ log[j].rec = log[i].rec }) = n

\* C22 witness: a BID order with a hidden quantity became a BUY trade and an
\* OFFER order became a SELL trade
C22_Witness ==
    \E i, j \in 1..(Len(log) - 1) :
       /\ IsOrderReceived(log[i]) /\ IsOrderReceived(log[j])
       /\ log[i].val.side = "BID" /\ log[i].val.hiddenQuantity = 3
       /\ log[i + 1].val.side = "BUY" /\ log[i + 1].val.quantity = 3 + log[i].val.visibleQuantity
       /\ log[j].val.side = "OFFER" /\ log[j + 1].val.side = "SELL"

----------------------------------------------------------------------------
(* PricingConnector::Subscribe on records whose Spread column varies *)

\* 1/128 and 1/64 as DataGenerator prints them in the fifth column
SpreadColumns == {"0.0078125", "0.015625"}

\* price records with two bids, two asks and either spread text
PriceLinesAnySpread ==
    [cusip : {"91282CAV3"}, bid : {F99_316, F99_31p}, ask : {F100_000, F100_002},
     spread : SpreadColumns]

\* one record of the prices file; Subscribe reads columns 1, 2 and 3 only
PricingRecordAnySpread ==
    /\ pc = "prices" /\ calls < MaxCalls
    /\ \E line \in PriceLinesAnySpread, elapsed \in BOOLEAN, ub \in {"publish", "fault"} :
          EndRecord(PricingConnector_Subscribe(Begin("PricingRecord", line), line, elapsed, ub))

PriceColumnsSpec == Init /\ [][PricingRecordAnySpread]_vars

\* C23: for a price record with bid b and ask a, PricingService stores
\* mid = (a+b)/2 and spread = a-b, and the PriceStream AlgoStreamingService
\* produces from it has bid price b on an order tagged BID and offer price a
\* on an order tagged OFFER, whatever the Spread column says. Stored values
\* are in 1/512, decoded prices in 1/256.
C23_StreamQuotesBidAndAsk ==
    (lastCall.op = "PricingRecord" /\ lastResult \in {"ok", "crash"}) =>
       LET l  == lastCall.arg
           b  == Frac2Price(l.bid).val
           a  == Frac2Price(l.ask).val
           ps == algoStreamData[l.cusip].priceStream
           produced == { i \in DOMAIN log : IsAlgoStream(log[i]) /\ log[i].rec = calls }
       IN  /\ 2 * priceData[l.cusip].mid = 2 * a + 2 * b
           /\ priceData[l.cusip].bidOfferSpread = 2 * a - 2 * b
           /\ ps.bidOrder.price = 2 * b /\ ps.bidOrder.side = "BID"
           /\ ps.offerOrder.price = 2 * a /\ ps.offerOrder.side = "OFFER"
           /\ Cardinality(produced) = 1
           /\ \A i \in produced : log[i].val.priceStream = ps

\* C23 witness: a record whose Spread column says 1/64 while ask - bid is
\* 1/128 was priced, after a record with another bid and another ask
C23_Witness ==
    /\ lastCall.op = "PricingRecord" /\ lastResult = "ok" /\ calls = 2
    /\ lastCall.arg.spread = "0.015625"
    /\ lastCall.arg.bid = F99_316 /\ lastCall.arg.ask = F100_000
    /\ priceData["91282CAV3"].bidOfferSpread = 4
    /\ algoStreamData["91282CAV3"].priceStream.bidOrder.price = 2 * 25598
    /\ \E i \in DOMAIN log : /\ IsAlgoStream(log[i]) /\ log[i].rec = 1
                             /\ log[i].val.priceStream.bidOrder.price = 2 * 25596
                             /\ log[i].val.priceStream.offerOrder.price = 2 * 25602

\* positions in the log of the events of service svc with operation op
\* caused by top-level call r
StreamingEventsAt(r, op) ==
    { i \in DOMAIN log : log[i].rec = r /\ log[i].svc = "StreamingService" /\ log[i].op = op }

\* the store, then one notification per listener, each carrying the price
\* stream of the AlgoStream produced by call r
StoredThenNotified(r) ==
    LET produced == { i \in DOMAIN log : IsAlgoStream(log[i]) /\ log[i].rec = r }
        stored   == StreamingEventsAt(r, "store")
        notified == StreamingEventsAt(r, "notify")
    IN  /\ Cardinality(produced) = 1
        /\ Cardinality(stored) = 1
        /\ Cardinality(notified) = Len(streamingService_listeners)
        /\ \A a \in produced, i \in stored, j \in notified :
              /\ a < i /\ i < j
              /\ log[i].val = log[a].val.priceStream /\ log[j].val = log[i].val
              /\ priceStreamData[log[i].key] = log[i].val \/ r < calls

\* C24: every price record yields exactly one AlgoStream, and for it
\* StreamingService stores the price stream as the latest of its product,
\* then notifies each listener once, then publishes the price stream once on
\* its outbound connector.
C24_StoreNotifyPublishStream ==
    \A r \in 1..calls :
       (\E i \in DOMAIN log : IsPriceReceived(log[i]) /\ log[i].rec = r) =>
          /\ StoredThenNotified(r)
          /\ Cardinality(StreamingEventsAt(r, "publish")) = 1
          /\ \A j \in StreamingEventsAt(r, "notify"), k \in StreamingEventsAt(r, "publish") :
                j < k /\ log[k].val = log[j].val

----------------------------------------------------------------------------
(* RiskService::GetBucketedRisk after trades *)

\* sectors a caller can name: every list of distinct products of the table,
\* the empty one included
Sectors ==
    [products : {<<>>, <<"91282CAV3">>, <<"91282CBL4">>, <<"91282CAV3", "91282CBL4">>,
                 <<"91282CBL4", "91282CAV3">>},
     name : {"FrontEnd"}]

\* a caller asks for the risk of a sector
GetBucketedRisk ==
    /\ pc = "done" /\ calls < MaxCalls
    /\ \E sector \in Sectors :
          Commit([Begin("GetBucketedRisk", sector) EXCEPT
                     !.lastResult = RiskService_GetBucketedRisk(St, sector)])

\* only the trades file holds records; sector risk is asked for afterwards
BucketedRiskNext == TradeRecord \/ EndOfFile \/ GetBucketedRisk

BucketedRiskSpec == Init /\ [][BucketedRiskNext]_vars

\* C25: GetBucketedRisk(sector) returns a PV01 for the sector whose value is
\* the sum of pv01 * quantity and whose quantity is the sum of the quantities
\* over exactly the members that have an entry in the risk store; members
\* without an entry add nothing, and the risk store is left unchanged.
C25_BucketedRisk ==
    [][ (calls' = calls + 1 /\ lastCall'.op = "GetBucketedRisk") =>
           LET sector  == lastCall'.arg
               members == { sector.products[i] : i \in DOMAIN sector.products }
               present == members \cap DOMAIN pv01Data
               value   == [p \in present |-> pv01Data[p].pv01 * pv01Data[p].quantity]
               qty     == [p \in present |-> pv01Data[p].quantity]
           IN  /\ lastResult'.product = sector
               /\ lastResult'.pv01 = SumOver(value, present)
               /\ lastResult'.quantity = SumOver(qty, present)
               /\ stores' = stores
               /\ log' = log
      ]_vars

\* C25 witness: a sector of two members, one of them without an entry in the
\* risk store, was asked for after trades on the other
C25_Witness ==
    /\ lastCall.op = "GetBucketedRisk"
    /\ Len(lastCall.arg.products) = 2
    /\ DOMAIN pv01Data = {"91282CAV3"}
    /\ pv01Data["91282CAV3"].quantity > 3
    /\ lastResult.quantity = pv01Data["91282CAV3"].quantity
    /\ lastResult.pv01 = 189 * lastResult.quantity

----------------------------------------------------------------------------
(* AddListener and GetListeners *)

\* the services whose AddListener(ServiceListener<V>*) override of the
\* Service interface has an empty body, next to a second overload taking
\* ServiceListener<AlgoExecution<T>>* or ServiceListener<AlgoStream<T>>*
AlgoServices == {"AlgoExecutionService", "AlgoStreamingService"}

\* the AddListener overloads of a service: the override of the Service
\* interface and, on the two algo services, the overload on the concrete type
Overloads(svc) == IF svc \in AlgoServices THEN {"Service", "concrete"} ELSE {"Service"}

\* AddListener: push_back on the listeners vector, except for the empty
\* override of the two algo services
AddListener(reg, svc, overload, listener) ==
    IF svc \in AlgoServices /\ overload = "Service" THEN reg
    ELSE [reg EXCEPT ![svc] = Append(@, listener)]

\* dynamic_cast<ServiceListener<IAlgoExecution<T>>*> of a pointer to a
\* listener that derives from ServiceListener<AlgoExecution<T>> only (as
\* ExecutionServiceListener and StreamingServiceListener do for their value
\* types): the two instantiations are unrelated classes, the cast yields null
DynamicCast(listener) == "nullptr"

\* GetListeners. AlgoExecutionService refills a function-local static vector
\* with the casts of its listeners and returns it; AlgoStreamingService fills
\* a local vector with the casts and returns a reference to it, which dangles
\* once the call returns: reading it faults or yields what the freed storage
\* holds; every other service returns its listeners vector.
GetListeners(reg, svc, fault, left) ==
    CASE svc = "AlgoExecutionService" ->
            [state |-> "returned", value |-> [i \in DOMAIN reg[svc] |-> DynamicCast(reg[svc][i])]]
      [] svc = "AlgoStreamingService" ->
            IF fault THEN [state |-> "fault"]
            ELSE [state |-> "returned", value |-> [i \in 1..left |-> "nullptr"]]
      [] OTHER -> [state |-> "returned", value |-> reg[svc]]

\* the listener the k-th registration after InitializeServices passes
NewListener == <<"ListenerA", "ListenerB", "ListenerC", "ListenerD">>

\* the registrations made after InitializeServices
Registrations == SelectSeq(log, LAMBDA e : e.op = "register")

\* a caller registers one more listener with a service
AddListenerCall ==
    /\ lastCall.op # "GetListeners" /\ calls < MaxListeners
    /\ \E svc \in DOMAIN listeners : \E overload \in Overloads(svc) :
          LET l == NewListener[calls + 1]
          IN  /\ listeners' = AddListener(listeners, svc, overload, l)
              /\ lastCall' = [op |-> "AddListener", arg |-> [svc |-> svc, overload |-> overload]]
              /\ log' = Append(log, [rec |-> calls + 1, svc |-> svc, op |-> "register",
                                     to |-> l, key |-> overload, val |-> l])
    /\ calls' = calls + 1
    /\ lastResult' = "ok"
    /\ UNCHANGED <<pc, priceData, algoStreamData, streamCount, priceStreamData, orderBookMap,
                   algoExecutionData, algoCount, executionOrderData, tradeData, bookCount,
                   positionData, pv01Data, hisData, inquiryData, ubRead>>

\* a caller asks a service for its listeners
GetListenersCall ==
    /\ lastCall.op # "GetListeners"
    /\ \E svc \in DOMAIN listeners : \E fault \in BOOLEAN, left \in 0..Len(listeners[svc]) :
          /\ lastCall' = [op |-> "GetListeners", arg |-> [svc |-> svc, overload |-> "none"]]
          /\ lastResult' = GetListeners(listeners, svc, fault, left)
    /\ calls' = calls + 1
    /\ UNCHANGED <<pc, log, priceData, algoStreamData, streamCount, priceStreamData,
                   orderBookMap, algoExecutionData, algoCount, executionOrderData, tradeData,
                   bookCount, positionData, pv01Data, hisData, inquiryData, ubRead,
                   listeners>>

ListenersNext == AddListenerCall \/ GetListenersCall

ListenersSpec == Init /\ [][ListenersNext]_vars

\* the listeners registered with service svc, in registration order: those
\* InitializeServices registered, then those registered since, through
\* whichever AddListener overload
RegisteredWith(svc) ==
    LET since == SelectSeq(Registrations, LAMBDA e : e.svc = svc)
    IN  ListenersOf[svc] \o [i \in DOMAIN since |-> since[i].val]

\* C26: for every service, the two algo services included, GetListeners
\* returns exactly the listeners registered with AddListener on that service,
\* in registration order, a listener registered through the Service-interface
\* AddListener among them.
C26_GetListenersReturnsRegistered ==
    lastCall.op = "GetListeners" =>
       lastResult = [state |-> "returned", value |-> RegisteredWith(lastCall.arg.svc)]

\* C27: every entity reference a listener's ProcessAdd is handed, and every
\* entity reference OnMessage works on, names a live object throughout the
\* call: no call reads an inquiry, or passes it to a listener, after erasing
\* the store entry the reference aliases.
C27_ReferencesStayLive == ubRead = FALSE

----------------------------------------------------------------------------
(* MarketDataService::AggregateDepth applied repeatedly *)

\* bid stacks of at most MaxStack orders at two prices, repeated or not
BidStacksToAggregate ==
    UNION { [1..n -> [price : {25596, 25598}, quantity : {1, 2}, side : {"BID"}]] : n \in 0..MaxStack }

\* offer stacks of at most MaxStack orders at two prices
OfferStacksToAggregate ==
    UNION { [1..n -> [price : {25600, 25602}, quantity : {3}, side : {"OFFER"}]] : n \in 0..MaxStack }

\* the service holds a book, aggregated or not
AggregateInit ==
    /\ pc = "done"
    /\ calls = 0
    /\ lastCall = [op |-> "none", arg |-> "none"]
    /\ lastResult = "ok"
    /\ log = <<>>
    /\ priceData = EmptyMap /\ algoStreamData = EmptyMap /\ priceStreamData = EmptyMap
    /\ streamCount = 0 /\ algoCount = 0 /\ bookCount = 0
    /\ algoExecutionData = EmptyMap /\ executionOrderData = EmptyMap /\ tradeData = EmptyMap
    /\ positionData = EmptyMap /\ pv01Data = EmptyMap /\ inquiryData = EmptyMap
    /\ hisData = [t \in HistoricalTypes |-> EmptyMap]
    /\ ubRead = FALSE
    /\ listeners = ListenersOf
    /\ \E bids \in BidStacksToAggregate, offers \in OfferStacksToAggregate :
          orderBookMap = Put(EmptyMap, "91282CAV3",
                             [product |-> "91282CAV3", bidStack |-> bids, offerStack |-> offers])

\* MarketDataService::AggregateDepth(productId) on the held book: the stored
\* book is replaced by the aggregated one, which is returned
CallAggregateDepth ==
    /\ calls < MaxApplications
    /\ \E aggregated \in AggregateDepth(orderBookMap["91282CAV3"]) :
          /\ orderBookMap' = Put(orderBookMap, "91282CAV3", aggregated)
          /\ lastResult' = aggregated
          /\ log' = Append(log, [rec |-> calls + 1, svc |-> "MarketDataService",
                                 op |-> "AggregateDepth", to |-> "none", key |-> "91282CAV3",
                                 val |-> [before |-> orderBookMap["91282CAV3"], after |-> aggregated]])
    /\ lastCall' = [op |-> "AggregateDepth", arg |-> "91282CAV3"]
    /\ calls' = calls + 1
    /\ UNCHANGED <<pc, priceData, algoStreamData, streamCount, priceStreamData,
                   algoExecutionData, algoCount, executionOrderData, tradeData, bookCount,
                   positionData, pv01Data, hisData, inquiryData, ubRead, listeners>>

AggregateSpec == AggregateInit /\ [][CallAggregateDepth]_vars

\* the orders of a stack as a set
OrderSet(stack) == { stack[i] : i \in DOMAIN stack }

\* C28: applying AggregateDepth to a book AggregateDepth produced yields the
\* same book: the same product and, on each side, the same set of
\* price/quantity/side orders, one per order of the stack.
C28_AggregateDepthIdempotent ==
    \A i \in DOMAIN log :
       (log[i].op = "AggregateDepth" /\ i > 1) =>
          LET once  == log[i].val.before
              twice == log[i].val.after
          IN  /\ once = log[i - 1].val.after
              /\ twice.product = once.product
              /\ OrderSet(twice.bidStack) = OrderSet(once.bidStack)
              /\ OrderSet(twice.offerStack) = OrderSet(once.offerStack)
              /\ Len(twice.bidStack) = Len(once.bidStack)
              /\ Len(twice.offerStack) = Len(once.offerStack)

\* C28 witness: the first application merged two bids at one price, and the
\* second returned the two offers in the other order
C28_Witness ==
    /\ Len(log) = 2
    /\ Len(log[1].val.before.bidStack) = 2 /\ Len(log[1].val.after.bidStack) = 1
    /\ log[1].val.after.bidStack[1].quantity = 3
    /\ Len(log[2].val.after.offerStack) = 2
    /\ log[2].val.after.offerStack # log[2].val.before.offerStack

----------------------------------------------------------------------------
(* PriceUtils::Frac2Price and Price2Frac on price strings *)

\* integer parts of one, two and three digits
IntegerParts == {0, 7, 99, 100}

\* every string "X-YYZ" with YY in 00..31 and Z in 0..7 or '+'
ValidFracs ==
    { to_string(x) \o <<"-">> \o (IF yy < 10 THEN <<"0">> ELSE <<>>) \o to_string(yy) \o <<z>> :
        x \in IntegerParts, yy \in 0..31, z \in {"0", "1", "2", "3", "4", "5", "6", "7", "+"} }

\* the strings a caller decodes: the valid ones and one with four characters
\* after the dash
FracStrings == ValidFracs \cup {F99_162p}

\* a caller holds a price string
FracInit ==
    /\ pc = "done"
    /\ calls = 0
    /\ \E s \in FracStrings : lastCall = [op |-> "none", arg |-> s]
    /\ lastResult = "ok"
    /\ log = <<>>
    /\ priceData = EmptyMap /\ algoStreamData = EmptyMap /\ priceStreamData = EmptyMap
    /\ streamCount = 0 /\ algoCount = 0 /\ bookCount = 0
    /\ orderBookMap = EmptyMap
    /\ algoExecutionData = EmptyMap /\ executionOrderData = EmptyMap /\ tradeData = EmptyMap
    /\ positionData = EmptyMap /\ pv01Data = EmptyMap /\ inquiryData = EmptyMap
    /\ hisData = [t \in HistoricalTypes |-> EmptyMap]
    /\ ubRead = FALSE
    /\ listeners = ListenersOf

\* the caller decodes the string
CallFrac2Price ==
    /\ lastCall.op = "none"
    /\ lastCall' = [op |-> "Frac2Price", arg |-> lastCall.arg]
    /\ lastResult' = Frac2Price(lastCall.arg)
    /\ UNCHANGED <<pc, calls, log, priceData, algoStreamData, streamCount, priceStreamData,
                   orderBookMap, algoExecutionData, algoCount, executionOrderData, tradeData,
                   bookCount, positionData, pv01Data, hisData, inquiryData, ubRead, listeners>>

\* the caller encodes the price the decoding returned
CallPrice2Frac ==
    /\ lastCall.op = "Frac2Price" /\ lastResult.ok
    /\ lastCall' = [op |-> "Price2Frac", arg |-> [s |-> lastCall.arg, price |-> lastResult.val]]
    /\ lastResult' = Price2Frac(lastResult.val)
    /\ UNCHANGED <<pc, calls, log, priceData, algoStreamData, streamCount, priceStreamData,
                   orderBookMap, algoExecutionData, algoCount, executionOrderData, tradeData,
                   bookCount, positionData, pv01Data, hisData, inquiryData, ubRead, listeners>>

RoundTripNext == CallFrac2Price \/ CallPrice2Frac

RoundTripSpec == FracInit /\ [][RoundTripNext]_vars

\* s with a final '4' written as '+'
PlusForFour(s) == IF s[Len(s)] = "4" THEN [s EXCEPT ![Len(s)] = "+"] ELSE s

\* C29: every valid string "X-YYZ" decodes, and encoding the decoded price
\* gives the string back with the 32nds zero-padded to two digits and a final
\* 256ths digit 4 printed as '+'.
C29_RoundTrip ==
    /\ (lastCall.op = "Frac2Price" /\ lastCall.arg \in ValidFracs) => lastResult.ok
    /\ (lastCall.op = "Price2Frac" /\ lastCall.arg.s \in ValidFracs) =>
          lastResult = PlusForFour(lastCall.arg.s)

\* C29 witness: a string with a one-digit 32nds value and the digit 4 came
\* back with the leading zero kept and '+' in place of 4
C29_Witness ==
    /\ lastCall.op = "Price2Frac"
    /\ lastCall.arg.s = <<"9", "9", "-", "0", "7", "4">>
    /\ lastResult = <<"9", "9", "-", "0", "7", "+">>

\* "99-16+"
F99_16p == <<"9", "9", "-", "1", "6", "+">>

----------------------------------------------------------------------------
(* Order books across market-data lines *)

\* C31: the stored OrderBook of a product accumulates across market-data
\* lines.  Each processed line adds, at every price and on each side, the sizes
\* it quotes there to the quantity the stored book already held at that price
\* (nothing before the first line), so after n lines the quantity at a price is
\* the sum over the n lines; no price level of the stored book disappears; and
\* the book passed to the listeners of MarketDataService is the stored book.
C31_BookAccumulates ==
    [][ ( /\ calls' = calls + 1
          /\ lastCall'.op = "MarketDataRecord"
          /\ lastResult' = "ok" )
        => LET p == lastCall'.arg.cusip
           IN  /\ Has(orderBookMap', p)
               /\ \A isBid \in BOOLEAN :
                    LET new == StackOf(orderBookMap', p, isBid)
                        old == StackOf(orderBookMap, p, isBid)
                    IN  /\ StackPrices(old) \subseteq StackPrices(new)
                        /\ \A price \in StackPrices(new) \cup StackPrices(old)
                                        \cup {25476, 25596, 25598, 25600, 25602} :
                              PriceQuantity(new, price)
                                  = PriceQuantity(old, price)
                                    + QuotedAt(lastCall'.arg.levels, price, isBid)
               /\ \E i \in DOMAIN NewEvents :
                     NewEvents[i].svc = "MarketDataService" /\ NewEvents[i].op = "notify"
               /\ \A i \in DOMAIN NewEvents :
                     (NewEvents[i].svc = "MarketDataService" /\ NewEvents[i].op = "notify")
                         => NewEvents[i].val = orderBookMap'[p]
               /\ \A q \in DOMAIN orderBookMap : q # p => orderBookMap'[q] = orderBookMap[q]
      ]_vars

\* a second line for a product has been processed: the bids at 99-316 hold the
\* sizes 1 + 2 of two lines
C31_Witness ==
    /\ lastCall.op = "MarketDataRecord" /\ lastResult = "ok"
    /\ Has(orderBookMap, "91282CAV3")
    /\ \E i \in DOMAIN orderBookMap["91282CAV3"].bidStack :
          /\ orderBookMap["91282CAV3"].bidStack[i].price = 25598
          /\ orderBookMap["91282CAV3"].bidStack[i].quantity = 6

----------------------------------------------------------------------------
(* Propagation of one market-data record *)

\* the effects caused by top-level call r, oldest first, each reduced to the
\* service, the kind of effect and the listener invoked
EffectsOf(r) ==
    LET es == SelectSeq(log, LAMBDA e : e.rec = r)
    IN  [i \in DOMAIN es |-> <<es[i].svc, es[i].op, es[i].to>>]

\* the depth-first walk of the graph wired by main from MarketDataService on
MarketDataChain ==
    << <<"MarketDataService", "store", "none">>,
       <<"MarketDataService", "notify", "AlgoExecutionServiceListener">>,
       <<"AlgoExecutionService", "store", "none">>,
       <<"AlgoExecutionService", "notify", "ExecutionServiceListener">>,
       <<"ExecutionService", "store", "none">>,
       <<"ExecutionService", "notify", "TradeBookingServiceListener">>,
       <<"TradeBookingService", "notify", "PositionServiceListener">>,
       <<"PositionService", "store", "none">>,
       <<"PositionService", "notify", "RiskServiceListener">>,
       <<"RiskService", "store", "none">>,
       <<"RiskService", "notify", "HistoricalRiskListener">>,
       <<"RISK", "persist", "none">>,
       <<"PositionService", "notify", "HistoricalPositionListener">>,
       <<"POSITION", "persist", "none">>,
       <<"ExecutionService", "notify", "HistoricalExecutionListener">>,
       <<"EXECUTION", "persist", "none">> >>

\* C32: with the wiring of main, the effects of one market-data record occur
\* depth-first along the registration order: order book stored, AlgoExecution
\* created, ExecutionOrder stored, trade synthesised, position updated, PV01
\* updated, risk record persisted, position record persisted, and only then
\* the execution record persisted; a later-registered listener of a service
\* runs only after the whole chain of an earlier-registered one has returned.
C32_DepthFirstPropagation ==
    \A r \in 1..calls :
        (\E i \in DOMAIN log : log[i].rec = r /\ log[i].svc = "MarketDataService")
            => EffectsOf(r) = MarketDataChain

\* a market-data record has run through to the persisted execution record
C32_Witness ==
    /\ lastCall.op = "MarketDataRecord" /\ lastResult = "ok"
    /\ log # <<>>
    /\ log[Len(log)].rec = calls
    /\ log[Len(log)].svc = "EXECUTION" /\ log[Len(log)].op = "persist"
    /\ \E i \in DOMAIN log : log[i].rec = calls /\ log[i].svc = "POSITION" /\ log[i].op = "persist"

----------------------------------------------------------------------------
(* The PV01 handed to the risk listeners *)

\* C33: after every RiskService.AddPosition call, the PV01 passed to the risk
\* listeners (and so persisted) has the same quantity as the PV01 that
\* RiskService stores for that product.
C33_NotifiedPV01IsStoredPV01 ==
    \A i \in DOMAIN log :
        IsRiskStore(log[i]) =>
            \A j \in DOMAIN log :
                ( /\ j > i /\ log[j].rec = log[i].rec /\ log[j].key = log[i].key
                  /\ \/ (log[j].svc = "RiskService" /\ log[j].op = "notify")
                     \/ (log[j].svc = "RISK" /\ log[j].op = "persist") )
                    => log[j].val.quantity = log[i].val.quantity

----------------------------------------------------------------------------
(* How many effects one record has *)

\* number of events of seq that service svc produced with operation op for
\* listener to ("none" for a store or a persisted record)
Count(seq, svc, op, to) ==
    Len(SelectSeq(seq, LAMBDA e : e.svc = svc /\ e.op = op /\ e.to = to))

\* one trade, one Position notification to each listener of PositionService,
\* one PV01 notification, one persisted position and one persisted risk record
OneTradeDownstream(seq) ==
    /\ Count(seq, "TradeBookingService", "notify", "PositionServiceListener") = 1
    /\ Count(seq, "PositionService", "store", "none") = 1
    /\ Count(seq, "PositionService", "notify", "RiskServiceListener") = 1
    /\ Count(seq, "PositionService", "notify", "HistoricalPositionListener") = 1
    /\ Count(seq, "RiskService", "store", "none") = 1
    /\ Count(seq, "RiskService", "notify", "HistoricalRiskListener") = 1
    /\ Count(seq, "POSITION", "persist", "none") = 1
    /\ Count(seq, "RISK", "persist", "none") = 1

\* the top-level calls so far that stored an order book or a trade, i.e. the
\* market-data and trades-file records processed
RecordsProcessed(seq) ==
    { seq[i].rec : i \in { k \in DOMAIN seq :
                             /\ seq[k].op = "store"
                             /\ seq[k].svc \in {"MarketDataService", "TradeBookingService"} } }

\* C34: with the wiring of main, each market-data record produces exactly one
\* AlgoExecution, one stored ExecutionOrder, one synthesised Trade, one
\* Position notification and one PV01 notification; each trades-file record
\* produces exactly one stored Trade, one Position notification and one PV01
\* notification; so the number of persisted position records equals the
\* number of persisted risk records equals the number of market-data records
\* plus trades-file records processed.
C34_OneOfEachPerRecord ==
    [][ /\ ( calls' = calls + 1 /\ lastCall'.op = "MarketDataRecord" /\ lastResult' = "ok" )
            => /\ Count(NewEvents, "MarketDataService", "store", "none") = 1
               /\ Count(NewEvents, "AlgoExecutionService", "store", "none") = 1
               /\ Count(NewEvents, "ExecutionService", "store", "none") = 1
               /\ Count(NewEvents, "TradeBookingService", "store", "none") = 0
               /\ OneTradeDownstream(NewEvents)
        /\ ( calls' = calls + 1 /\ lastCall'.op = "TradeRecord" /\ lastResult' = "ok" )
            => /\ Count(NewEvents, "TradeBookingService", "store", "none") = 1
               /\ Count(NewEvents, "MarketDataService", "store", "none") = 0
               /\ Count(NewEvents, "AlgoExecutionService", "store", "none") = 0
               /\ Count(NewEvents, "ExecutionService", "store", "none") = 0
               /\ OneTradeDownstream(NewEvents)
        /\ ( calls' = calls + 1 /\ lastResult' # "ok" ) => NewEvents = <<>>
        /\ Count(log', "POSITION", "persist", "none") = Count(log', "RISK", "persist", "none")
        /\ Count(log', "POSITION", "persist", "none") = Cardinality(RecordsProcessed(log'))
      ]_vars

\* market-data records and a trades-file record have been processed
C34_Witness ==
    /\ lastCall.op = "TradeRecord" /\ lastResult = "ok"
    /\ Count(log, "MarketDataService", "store", "none") >= 1
    /\ Count(log, "TradeBookingService", "store", "none") >= 1
    /\ Count(log, "POSITION", "persist", "none") >= 2

----------------------------------------------------------------------------
(* The trade store and the two ways a trade is booked *)

\* the trade delivered by log event i was synthesised from an ExecutionOrder:
\* the same top-level call handed that order to TradeBookingServiceListener
Synthesised(i) ==
    \E j \in DOMAIN log :
        /\ j < i /\ log[j].rec = log[i].rec /\ log[j].key = log[i].key
        /\ log[j].svc = "ExecutionService" /\ log[j].op = "notify"
        /\ log[j].to = "TradeBookingServiceListener"

\* the trades-file records delivered so far, as positions in the log
FromTradesFile ==
    { i \in DOMAIN log : IsTradeDelivery(log[i]) /\ ~Synthesised(i) }

\* C35: BookTrade, the path of the trades synthesised from ExecutionOrders,
\* notifies the listeners but leaves the trade store of TradeBookingService
\* unchanged: after any number of market-data records GetData(orderId) fails
\* with NotFound for every synthesised trade, whereas a trade delivered
\* through OnMessage (trades file) is retrievable by its tradeId.
C35_BookTradeDoesNotStore ==
    /\ \A i \in DOMAIN log :
          (IsTradeDelivery(log[i]) /\ Synthesised(i)) =>
              /\ ~Has(tradeData, log[i].key)
              /\ TradeBookingService_GetData(St, log[i].key).lastResult = "NotFound"
    /\ \A i \in FromTradesFile :
          /\ Has(tradeData, log[i].key)
          /\ TradeBookingService_GetData(St, log[i].key).lastResult = "ok"
          /\ (\A j \in FromTradesFile : log[j].key = log[i].key => j <= i)
                => tradeData[log[i].key] = log[i].val
    /\ DOMAIN tradeData = { log[i].key : i \in FromTradesFile }
    /\ pc = "marketdata" => tradeData = EmptyMap

\* a synthesised trade and a trades-file trade have both been booked
C35_Witness ==
    /\ \E i \in DOMAIN log : IsTradeDelivery(log[i]) /\ Synthesised(i)
    /\ FromTradesFile # {}
    /\ lastCall.op = "TradeRecord" /\ lastResult = "ok"

----------------------------------------------------------------------------
(* Inquiries at rest *)

\* C36: whenever no OnMessage, SendQuote or RejectInquiry call is in progress,
\* the inquiry store contains no inquiry in state RECEIVED, QUOTED or DONE
\* (only REJECTED and CUSTOMER_REJECTED inquiries are ever retained), and no
\* listener is ever passed an inquiry in state RECEIVED or QUOTED.
C36_OnlyRejectedRetained ==
    /\ \A id \in DOMAIN inquiryData :
          /\ inquiryData[id].state \in {"REJECTED", "CUSTOMER_REJECTED"}
          /\ inquiryData[id].inquiryId = id
    /\ \A i \in DOMAIN log :
          (log[i].svc = "InquiryService" /\ log[i].op = "notify")
              => log[i].val.state \in {"DONE", "REJECTED", "CUSTOMER_REJECTED"}

\* a RECEIVED inquiry and a REJECTED one have been fed, a quote was sent on
\* the retained one, and the listeners were notified along the way
C36_Witness ==
    /\ lastCall.op = "SendQuote" /\ lastResult = "ok"
    /\ \E i \in DOMAIN log :
          /\ log[i].svc = "InquiryService" /\ log[i].op = "OnMessage"
          /\ log[i].val.state = "RECEIVED"
    /\ \E i \in DOMAIN log :
          /\ log[i].svc = "InquiryService" /\ log[i].op = "notify" /\ log[i].rec = calls
          /\ log[i].val.state = "DONE"

----------------------------------------------------------------------------
(* Products known to PositionService and to RiskService *)

\* C37: after every fully processed record, the set of products that have a
\* PV01 entry in RiskService equals the set of products that have a Position
\* entry in PositionService, and neither set ever loses a product.
C37_SameProducts ==
    [][ /\ DOMAIN pv01Data' = DOMAIN positionData'
        /\ DOMAIN pv01Data \subseteq DOMAIN pv01Data'
        /\ DOMAIN positionData \subseteq DOMAIN positionData'
        /\ \A p \in DOMAIN positionData' :
              positionData'[p].product = p /\ pv01Data'[p].product = p
        /\ ( calls' = calls + 1 /\ lastCall'.op \in {"MarketDataRecord", "TradeRecord"}
             /\ lastResult' = "ok" )
              => lastCall'.arg.cusip \in DOMAIN positionData'
      ]_vars

\* both products hold a position and a PV01 entry, the second gained after
\* the first
C37_Witness ==
    /\ DOMAIN positionData = ProductTable /\ DOMAIN pv01Data = ProductTable
    /\ lastCall.op \in {"MarketDataRecord", "TradeRecord"} /\ lastResult = "ok"
    /\ calls >= 2

----------------------------------------------------------------------------
(* The book AlgoExecutionService asks for its best bid and offer *)

\* what BestBidOffer works from when it does not fault: a side that is empty
\* yields whatever the read through end() yields
WithIndeterminate(orderBook, junk) ==
    [orderBook EXCEPT !.bidStack   = IF @ = <<>> THEN <<junk>> ELSE @,
                      !.offerStack = IF @ = <<>> THEN <<junk>> ELSE @]

\* MarketDataService::OnMessage and the cascade of its listener with the
\* dereference in OrderBook::BestBidOffer left as the source has it: nothing
\* on the way from OnMessage to CreateExecutionOrder tests the stacks
DeliverBook(s, aggregated, ids, fault, junk) ==
    LET key == aggregated.product
        s1  == Emit([s EXCEPT !.orderBookMap = Put(@, key, aggregated)],
                    "MarketDataService", "store", key, aggregated)
        n   == EmitNotify(s1, "MarketDataService", "AlgoExecutionServiceListener", key, aggregated)
    IN  IF BestBidOffer_Unchecked(aggregated, fault, junk).state = "fault"
        THEN [n EXCEPT !.lastResult = "crash"]
        ELSE AlgoExecuteOrder(n, WithIndeterminate(aggregated, junk), ids)

\* what the dereferences in BestBidOffer can do on this book: with both sides
\* present nothing is read through end()
EndReads(orderBook) ==
    IF orderBook.bidStack # <<>> /\ orderBook.offerStack # <<>>
    THEN [fault : {FALSE}, junk : {orderBook.bidStack[1]}]
    ELSE [fault : BOOLEAN, junk : IndeterminateOrders]

\* one record read by MarketDataConnector::Subscribe
BookDelivered ==
    /\ pc = "marketdata" /\ calls < MaxCalls
    /\ \E line \in MarketLines, ids \in RandomIds :
          LET b == Begin("MarketDataRecord", line)
              p == ParseOrderBook(b, line)
          IN  IF p.lastResult # "ok" THEN EndRecord(p)
              ELSE \E aggregated \in AggregateDepth(p.orderBookMap[line.cusip]) :
                      \E ub \in EndReads(aggregated) :
                          EndRecord(DeliverBook(p, aggregated, ids, ub.fault, ub.junk))

DeliverySpec == Init /\ [][BookDelivered \/ EndOfFile]_vars

\* C38: whenever AlgoExecutionService calls BestBidOffer on an OrderBook that
\* reached it through MarketDataConnector.Subscribe, both the bid stack and
\* the offer stack of that book are non-empty, so the best bid and the best
\* offer are defined: the call returns the highest bid and the lowest offer
\* whatever a read through end() would have yielded, and the record completes.
C38_DeliveredBookHasBothSides ==
    [][ ( /\ calls' = calls + 1
          /\ lastCall'.op = "MarketDataRecord"
          /\ lastResult' \notin {"MalformedInput", "UnknownProduct"} )
        => /\ lastResult' = "ok"
           /\ \E i \in DOMAIN NewEvents :
                 NewEvents[i].svc = "MarketDataService" /\ NewEvents[i].op = "notify"
           /\ \A i \in DOMAIN NewEvents :
                 ( /\ NewEvents[i].svc = "MarketDataService" /\ NewEvents[i].op = "notify"
                   /\ NewEvents[i].to = "AlgoExecutionServiceListener" )
                 => LET book == NewEvents[i].val
                    IN  /\ book.bidStack # <<>>
                        /\ book.offerStack # <<>>
                        /\ \A fault \in BOOLEAN, junk \in IndeterminateOrders :
                              LET r == BestBidOffer_Unchecked(book, fault, junk)
                              IN  /\ r.state = "returned"
                                  /\ r.value.bidOrder.price = SetMax(StackPrices(book.bidStack))
                                  /\ r.value.offerOrder.price = SetMin(StackPrices(book.offerStack))
      ]_vars

\* a second record for a product has reached AlgoExecutionService
C38_Witness ==
    /\ lastCall.op = "MarketDataRecord" /\ lastResult = "ok" /\ calls >= 2
    /\ \E i \in DOMAIN log :
          /\ log[i].rec = calls /\ log[i].svc = "MarketDataService" /\ log[i].op = "notify"
          /\ log[i].to = "AlgoExecutionServiceListener"
          /\ Len(log[i].val.bidStack) >= 2
    /\ \E i \in DOMAIN log :
          log[i].rec = calls /\ log[i].svc = "AlgoExecutionService" /\ log[i].op = "store"

----------------------------------------------------------------------------
(* The same trade id delivered twice *)

\* the Trade that TradeBookingConnector::Subscribe builds from record l
TradeOf(l) ==
    [product |-> l.cusip, tradeId |-> l.tradeId, price |-> Frac2Price(l.price).val,
     book |-> l.book, quantity |-> ParseNumber(l.quantity).val,
     side |-> IF l.side = "BUY" THEN "BUY" ELSE "SELL"]

\* the trades-file trades stored so far under trade id id, oldest first
DeliveredAs(id) ==
    SelectSeq(log, LAMBDA e : e.svc = "TradeBookingService" /\ e.op = "store" /\ e.key = id)

\* C39: trade booking is not idempotent: delivering two trades-file records
\* with the same tradeId leaves a single entry for that tradeId in the trade
\* store (the later record) but adds the signed quantity of both records to
\* the product's position.
C39_BookingNotIdempotent ==
    [][ ( /\ calls' = calls + 1
          /\ lastCall'.op = "TradeRecord" /\ lastResult' = "ok"
          /\ Has(tradeData, lastCall'.arg.tradeId) )
        => LET later == TradeOf(lastCall'.arg)
               Held(positions, p, b) == IF Has(positions, p) THEN GetPosition(positions[p], b) ELSE 0
           IN  /\ DOMAIN tradeData' = DOMAIN tradeData
               /\ tradeData'[later.tradeId] = later
               /\ \A id \in DOMAIN tradeData \ {later.tradeId} : tradeData'[id] = tradeData[id]
               /\ Held(positionData', later.product, later.book)
                     = Held(positionData, later.product, later.book) + SignedQuantity(later)
               \* the earlier record's quantity is still part of the position
               /\ \A p \in ProductTable, b \in Books :
                     Held(positionData', p, b)
                         = SignedSum(SelectSeq(log', LAMBDA e :
                               IsTradeDelivery(e) /\ e.val.product = p /\ e.val.book = b))
               /\ Len(SelectSeq(log', LAMBDA e : IsTradeDelivery(e) /\ e.key = later.tradeId)) >= 2
      ]_vars

\* two buys of 3 with the same tradeId on one product have been delivered:
\* one entry in the store, both quantities in the position
C39_Witness ==
    /\ lastCall.op = "TradeRecord" /\ lastResult = "ok"
    /\ Len(DeliveredAs("T1")) = 2
    /\ DeliveredAs("T1")[1].val.product = DeliveredAs("T1")[2].val.product
    /\ DeliveredAs("T1")[1].val.side = "BUY" /\ DeliveredAs("T1")[2].val.side = "BUY"
    /\ DOMAIN tradeData = {"T1"}
    /\ GetPosition(positionData[lastCall.arg.cusip], "TRSY1") = 6

====
